---- MODULE Spec2Model ----
(***************************************************************************)
(* A model of the in-memory search core of typesense:                      *)
(*   - ReplicationState (raft_server.cpp): the replicated write path,      *)
(*     snapshot save and load;                                             *)
(*   - Index::run_search: the hand-off between the main thread and the     *)
(*     Index worker thread;                                                *)
(*   - Index (index.cpp): in-memory indexing, update and removal of        *)
(*     documents.                                                          *)
(* Each part has its own specification over the shared variables.          *)
(***************************************************************************)
EXTENDS Integers, Sequences, FiniteSets, TLC

(***************************************************************************)
(* Bounds of the model.                                                    *)
(***************************************************************************)
\* client write requests that reach this node
MaxReq == 1
\* entries of the replicated log
MaxLog == 2
\* searches the main thread hands to the Index worker
MaxSearch == 4
\* sequence ids the collection gives out
MaxDocs == 2
\* runs of index_in_memory
MaxIndexed == 3

\* the most records in a batch
MaxBatch == 2

\* search_field takes at most 2^MaxTurns turns of its loops
MaxTurns == 10

(***************************************************************************)
(* Program constants.                                                      *)
(***************************************************************************)
\* braft::FLAGS_raft_do_snapshot_min_index_gap, set by start()
raft_do_snapshot_min_index_gap == 1

Requests == 1..MaxReq
LogIndexes == 1..MaxLog

\* this node and the other peer of the group
Self == "n1"
Peer == "n2"
\* node->leader_id().is_empty()
NoLeader == "none"

\* PeerId::to_string(): ip:peering_port:api_port
PeerAddr(n) == <<n, "8107", "8108">>

\* the write routes: POST (documents or import), PUT, DELETE, PATCH
WriteInputs ==
    { [method |-> "POST", import |-> TRUE],
      [method |-> "POST", import |-> FALSE],
      [method |-> "PUT", import |-> FALSE],
      [method |-> "DELETE", import |-> FALSE],
      [method |-> "PATCH", import |-> FALSE] }

\* the status a forwarded call to the leader can come back with
LeaderStatuses == {201, 500}

ALREADY_HANDLED == "ALREADY_HANDLED"
INIT_SNAPSHOT == "INIT_SNAPSHOT"

VARIABLES
    \* ---- ReplicationState and its collaborators
    node,                \* this->node != nullptr
    is_leader,           \* node->is_leader()
    leader_id,           \* node->leader_id()
    shut_down,           \* the quit_service flag
    crashed,             \* the process died (undefined behaviour taken as a crash)
    log,                 \* the replicated log of this node
    committed,           \* index of the last committed entry
    last_applied,        \* index of the last entry on_apply went through
    applyPc,             \* position of on_apply: idle, iter, await
    iter_end,            \* the last entry of the batch on_apply iterates
    await_notified,      \* response->await of the entry being applied
    fsm_error,           \* the state machine was put in the error state
    msgs,                \* REPLICATION_MSG messages sent to the http thread
    rq,                  \* the http_req objects
    res,                 \* the http_res objects
    fwd,                 \* forwarding tasks on the thread pool
    store,               \* content of the persistent store directory
    db_open,             \* the store is open
    collections,         \* what CollectionManager holds in memory
    applied,             \* the log indexes applied, in order of application
    snapPc,              \* idle, saving
    snapArg,             \* the SnapshotArg handed to save_snapshot
    last_snapshot_index, \* braft: index of the last successful snapshot
    snapshot_requested,  \* node->snapshot() was called
    ext_snapshot_path,   \* an on-demand snapshot was asked for
    last_snap,           \* how the last run of save_snapshot ended, with
                         \* the dummy write it POSTed to the leader's /health
    last_load,           \* how the last on_snapshot_load ended
    caught_up,           \* this->caught_up
    refreshed,           \* what the last refresh_nodes found and did
    \* ---- Index: the hand-off between the main thread and the worker
    m,                   \* the owner of the mutex: none, worker, main
    ready,               \* the main thread has sent data
    processed,           \* the worker has handed control back
    terminate,           \* set during tear down
    search_params,       \* the request the main thread handed over
    workerPc,            \* position of the worker in run_search
    mainPc,              \* position of the main thread in the hand-off
    executed,            \* how many times each request was searched
    \* ---- Index: the in-memory index of one collection, with the
    \* documents of the collection and its sequence of ids
    search_index,        \* per string field, the ART: token -> leaf
    numerical_index,     \* per numeric field, the num_tree: (value, seq_id)
    sort_index,          \* per numeric field: seq_id -> value
    facet_index_v2,      \* seq_id -> per facet field, the token hashes
    num_documents,       \* the counter index_in_memory keeps
    docs,                \* the stored document of each live seq_id
    next_seq_id,         \* the next sequence id of the collection
    last_op,             \* the last operation and the Option of its record
    search_schema,       \* field name -> type, optional, facet
    iter_batch,          \* the records of the last batch, as it left them
    thrown,              \* a json conversion threw out of batch_memory_index
    \* ---- Index: the search in progress, with what it has produced
    search_args,         \* the arguments of Index::search, or NoSearch
    filter_ids,          \* what do_filtering put in filter_ids_out
    topster,             \* the Topster the organic results end up in
    fuzzy_calls,         \* the calls of art_fuzzy_search search_field made
    score_calls,         \* the calls of score_results, in order
    field_runs,          \* the calls of search_field, each with what it did
    facet_results        \* per facet, the values counted in its result_map

replVars ==
    << node, is_leader, leader_id, shut_down, crashed, log, committed,
       last_applied, applyPc, iter_end, await_notified, fsm_error, msgs, rq,
       res, fwd, store, db_open, collections, applied, snapPc, snapArg,
       last_snapshot_index, snapshot_requested, ext_snapshot_path,
       last_snap, last_load >>

nodesVars == << caught_up, refreshed >>

workerVars ==
    << m, ready, processed, terminate, search_params, workerPc, mainPc,
       executed >>

indexVars ==
    << search_index, numerical_index, sort_index, facet_index_v2,
       num_documents, docs, next_seq_id, last_op, search_schema, iter_batch,
       thrown, search_args, filter_ids, topster, fuzzy_calls, score_calls,
       field_runs, facet_results >>

vars == << replVars, nodesVars, workerVars, indexVars >>

NoReq == [arrived |-> FALSE, method |-> "", import |-> FALSE,
          notified |-> FALSE, freed |-> FALSE]
NoRes == [status |-> 0, body |-> << >>, proxied_stream |-> FALSE]
NoArg == [db_snapshot |-> {}, ext |-> FALSE, ok |-> TRUE, index |-> 0,
          closure |-> "none"]
NoPost == << >>
NoSnap == [ran |-> FALSE, files_added |-> FALSE, leader |-> NoLeader,
           post |-> NoPost]
NoLoad == [ran |-> FALSE, ret |-> 0, loaded |-> FALSE]
NoRefresh == [called |-> FALSE, nodes |-> {}, is_leader |-> FALSE,
              leader_id |-> NoLeader, change_peers |-> FALSE,
              reset_peers |-> FALSE, enqueued |-> FALSE]

\* ReplicationState::ReplicationState
ReplInit ==
    /\ node = FALSE
    /\ is_leader = FALSE
    /\ leader_id = NoLeader
    /\ shut_down = FALSE
    /\ crashed = FALSE
    /\ log = << >>
    /\ committed = 0
    /\ last_applied = 0
    /\ applyPc = "idle"
    /\ iter_end = 0
    /\ await_notified = FALSE
    /\ fsm_error = FALSE
    /\ msgs = << >>
    /\ rq = [r \in Requests |-> NoReq]
    /\ res = [r \in Requests |-> NoRes]
    /\ fwd = {}
    /\ store = {}
    /\ db_open = FALSE
    /\ collections = {}
    /\ applied = << >>
    /\ snapPc = "idle"
    /\ snapArg = NoArg
    /\ last_snapshot_index = 0
    /\ snapshot_requested = "none"
    /\ ext_snapshot_path = FALSE
    /\ last_snap = NoSnap
    /\ last_load = NoLoad
    /\ caught_up = FALSE
    /\ refreshed = NoRefresh

(***************************************************************************)
(* The consensus library (braft) as this node sees it.                     *)
(***************************************************************************)
\* this node wins an election
BecomeLeader ==
    /\ node /\ ~crashed /\ ~is_leader
    /\ is_leader' = TRUE
    /\ leader_id' = Self
    /\ UNCHANGED << node, shut_down, crashed, log, committed, last_applied,
                    applyPc, iter_end, await_notified, fsm_error, msgs, rq,
                    res, fwd, store, db_open, collections, applied, snapPc,
                    snapArg, last_snapshot_index, snapshot_requested,
                    ext_snapshot_path, last_snap, last_load >>
    /\ UNCHANGED << nodesVars, workerVars, indexVars >>

\* this node loses leadership, or the leader it knew
LoseLeader ==
    /\ node /\ ~crashed /\ leader_id # NoLeader
    /\ is_leader' = FALSE
    /\ leader_id' = NoLeader
    /\ UNCHANGED << node, shut_down, crashed, log, committed, last_applied,
                    applyPc, iter_end, await_notified, fsm_error, msgs, rq,
                    res, fwd, store, db_open, collections, applied, snapPc,
                    snapArg, last_snapshot_index, snapshot_requested,
                    ext_snapshot_path, last_snap, last_load >>
    /\ UNCHANGED << nodesVars, workerVars, indexVars >>

\* this node learns that the peer is the leader
LearnLeader ==
    /\ node /\ ~crashed /\ ~is_leader /\ leader_id = NoLeader
    /\ leader_id' = Peer
    /\ UNCHANGED << node, is_leader, shut_down, crashed, log, committed,
                    last_applied, applyPc, iter_end, await_notified,
                    fsm_error, msgs, rq, res, fwd, store, db_open,
                    collections, applied, snapPc, snapArg,
                    last_snapshot_index, snapshot_requested,
                    ext_snapshot_path, last_snap, last_load >>
    /\ UNCHANGED << nodesVars, workerVars, indexVars >>

\* the bodies of the entries a leader replicates: a serialized write request,
\* or the INIT_SNAPSHOT marker
ReplicatedBodies == {"POST", "DELETE", INIT_SNAPSHOT}

\* http_req::deserialize of the data of a log entry
deserialize(body, r, done) ==
    [kind |-> IF body = INIT_SNAPSHOT THEN INIT_SNAPSHOT ELSE "write",
     method |-> IF body = INIT_SNAPSHOT THEN "" ELSE body,
     req |-> r, done |-> done]

\* a follower receives an entry the leader appended (no closure: done is null)
ReplicateEntry(body) ==
    /\ node /\ ~crashed /\ ~is_leader /\ leader_id = Peer
    /\ Len(log) < MaxLog
    /\ log' = Append(log, deserialize(body, 0, FALSE))
    /\ UNCHANGED << node, is_leader, leader_id, shut_down, crashed, committed,
                    last_applied, applyPc, iter_end, await_notified,
                    fsm_error, msgs, rq, res, fwd, store, db_open,
                    collections, applied, snapPc, snapArg,
                    last_snapshot_index, snapshot_requested,
                    ext_snapshot_path, last_snap, last_load >>
    /\ UNCHANGED << nodesVars, workerVars, indexVars >>

\* the group commits the next entry of the log
Commit ==
    /\ node /\ ~crashed /\ leader_id # NoLeader
    /\ committed < Len(log)
    /\ committed' = committed + 1
    /\ UNCHANGED << node, is_leader, leader_id, shut_down, crashed, log,
                    last_applied, applyPc, iter_end, await_notified,
                    fsm_error, msgs, rq, res, fwd, store, db_open,
                    collections, applied, snapPc, snapArg,
                    last_snapshot_index, snapshot_requested,
                    ext_snapshot_path, last_snap, last_load >>
    /\ UNCHANGED << nodesVars, workerVars, indexVars >>

\* the service is told to quit
Shutdown ==
    /\ ~crashed /\ ~shut_down
    /\ shut_down' = TRUE
    /\ UNCHANGED << node, is_leader, leader_id, crashed, log, committed,
                    last_applied, applyPc, iter_end, await_notified,
                    fsm_error, msgs, rq, res, fwd, store, db_open,
                    collections, applied, snapPc, snapArg,
                    last_snapshot_index, snapshot_requested,
                    ext_snapshot_path, last_snap, last_load >>
    /\ UNCHANGED << nodesVars, workerVars, indexVars >>

(***************************************************************************)
(* ReplicationState: the write path.                                       *)
(***************************************************************************)
\* the route handler of a write, on the content of the store: a DELETE drops
\* the collection with all it holds, any other write adds the document of
\* the entry
run_write(content, method, idx) ==
    IF method = "DELETE" THEN {} ELSE content \cup {idx}

\* http_res::set_500 and http_res::set_body
set_500(response, message) ==
    [response EXCEPT !.status = 500, !.body = message]

set_body(response, status, body) ==
    [response EXCEPT !.status = status, !.body = body]

\* AsyncIndexArg with route_hash = ALREADY_HANDLED, sent as REPLICATION_MSG
HandledMsg(r) ==
    [route |-> ALREADY_HANDLED, req |-> r, method |-> "", idx |-> 0]

\* ReplicationState::get_leader_url_path: host and api port of the leader
get_leader_url_path(leader_addr, path, protocol) ==
    [protocol |-> protocol, host |-> leader_addr[1], port |-> leader_addr[3],
     path |-> path]

\* the request as write() received it
Arrived(r, inp) ==
    [rq EXCEPT ![r].arrived = TRUE, ![r].method = inp.method,
               ![r].import = inp.import]

\* a write_to_leader() without the leader_id().is_empty() test
write_to_leader_blind(r, inp, proceed_req) ==
    IF proceed_req /\ res[r].proxied_stream
    THEN /\ rq' = [Arrived(r, inp) EXCEPT ![r].notified = TRUE]
         /\ UNCHANGED << res, msgs, fwd >>
    ELSE /\ fwd' = fwd \cup
               { [req |-> r, leader_addr |-> PeerAddr(leader_id),
                  pc |-> "queued"] }
         /\ rq' = Arrived(r, inp)
         /\ UNCHANGED << res, msgs >>

\* ReplicationState::write_to_leader
write_to_leader(r, inp, proceed_req) ==
    IF leader_id = NoLeader
    THEN IF proceed_req /\ res[r].proxied_stream
         THEN \* streaming in progress: request->await.notify()
              /\ rq' = [Arrived(r, inp) EXCEPT ![r].notified = TRUE]
              /\ UNCHANGED << res, msgs, fwd >>
         ELSE /\ res' = [res EXCEPT
                           ![r] = set_500(res[r], << "Could not find a leader." >>)]
              /\ msgs' = Append(msgs, HandledMsg(r))
              /\ rq' = Arrived(r, inp)
              /\ UNCHANGED fwd
    ELSE IF proceed_req /\ res[r].proxied_stream
         THEN \* async request body of an in-flight request
              /\ rq' = [Arrived(r, inp) EXCEPT ![r].notified = TRUE]
              /\ UNCHANGED << res, msgs, fwd >>
         ELSE /\ fwd' = fwd \cup
                    { [req |-> r, leader_addr |-> PeerAddr(leader_id),
                       pc |-> "queued"] }
              /\ rq' = Arrived(r, inp)
              /\ UNCHANGED << res, msgs >>

\* a request can reach write(): once, and again for every further chunk of
\* a body that is being streamed to the leader
Deliverable(r, inp, proceed_req) ==
    \/ ~rq[r].arrived
    \/ /\ proceed_req
       /\ res[r].proxied_stream
       /\ ~rq[r].freed
       /\ rq[r].method = inp.method
       /\ rq[r].import = inp.import

\* a write() that applied the request itself on the leader
write_applies(r, inp, proceed_req) ==
    /\ ~crashed
    /\ Deliverable(r, inp, proceed_req)
    /\ IF ~node
       THEN /\ rq' = Arrived(r, inp)
            /\ UNCHANGED << log, res, msgs, fwd, store, collections, applied >>
       ELSE IF ~is_leader
            THEN /\ write_to_leader(r, inp, proceed_req)
                 /\ UNCHANGED << log, store, collections, applied >>
            ELSE /\ Len(log) < MaxLog
                 /\ log' = Append(log, deserialize(inp.method, r, TRUE))
                 /\ store' = run_write(store, inp.method, Len(log) + 1)
                 /\ collections' =
                       run_write(collections, inp.method, Len(log) + 1)
                 /\ applied' = Append(applied, Len(log) + 1)
                 /\ rq' = Arrived(r, inp)
                 /\ UNCHANGED << res, msgs, fwd >>
    /\ UNCHANGED << node, is_leader, leader_id, shut_down, crashed, committed,
                    last_applied, applyPc, iter_end, await_notified,
                    fsm_error, db_open, snapPc, snapArg, last_snapshot_index,
                    snapshot_requested, ext_snapshot_path, last_snap,
                    last_load >>
    /\ UNCHANGED << nodesVars, workerVars, indexVars >>

\* a write() without the node->is_leader() test
write_any_node(r, inp, proceed_req) ==
    /\ ~crashed
    /\ Deliverable(r, inp, proceed_req)
    /\ IF ~node
       THEN /\ rq' = Arrived(r, inp)
            /\ UNCHANGED << log, res, msgs, fwd >>
       ELSE /\ Len(log) < MaxLog
            /\ log' = Append(log, deserialize(inp.method, r, TRUE))
            /\ rq' = Arrived(r, inp)
            /\ UNCHANGED << res, msgs, fwd >>
    /\ UNCHANGED << node, is_leader, leader_id, shut_down, crashed, committed,
                    last_applied, applyPc, iter_end, await_notified,
                    fsm_error, store, db_open, collections, applied, snapPc,
                    snapArg, last_snapshot_index, snapshot_requested,
                    ext_snapshot_path, last_snap, last_load >>
    /\ UNCHANGED << nodesVars, workerVars, indexVars >>

\* ReplicationState::write
write(r, inp, proceed_req) ==
    /\ ~crashed
    /\ Deliverable(r, inp, proceed_req)
    /\ IF ~node
       THEN /\ rq' = Arrived(r, inp)
            /\ UNCHANGED << log, res, msgs, fwd >>
       ELSE IF ~is_leader
            THEN /\ write_to_leader(r, inp, proceed_req)
                 /\ UNCHANGED log
            ELSE \* node->apply(task): the task carries a ReplicationClosure
                 /\ Len(log) < MaxLog
                 /\ log' = Append(log, deserialize(inp.method, r, TRUE))
                 /\ rq' = Arrived(r, inp)
                 /\ UNCHANGED << res, msgs, fwd >>
    /\ UNCHANGED << node, is_leader, leader_id, shut_down, crashed, committed,
                    last_applied, applyPc, iter_end, await_notified,
                    fsm_error, store, db_open, collections, applied, snapPc,
                    snapArg, last_snapshot_index, snapshot_requested,
                    ext_snapshot_path, last_snap, last_load >>
    /\ UNCHANGED << nodesVars, workerVars, indexVars >>

\* the task write_to_leader put on the thread pool starts
forward(t) ==
    /\ ~crashed
    /\ t \in fwd /\ t.pc = "queued"
    /\ LET r == t.req
           url == get_leader_url_path(t.leader_addr, "path", "http")
       IN  IF rq[r].method = "POST" /\ rq[r].import
           THEN \* imports are handled asynchronously
                /\ res' = [res EXCEPT ![r].proxied_stream = TRUE]
                /\ fwd' = (fwd \ {t}) \cup {[t EXCEPT !.pc = "posting"]}
                /\ UNCHANGED msgs
           ELSE IF rq[r].method \in {"POST", "PUT", "DELETE"}
           THEN \E status \in LeaderStatuses :
                /\ res' = [res EXCEPT
                       ![r] = set_body(res[r], status,
                                       << "response of", url.host, url.port >>)]
                /\ msgs' = Append(msgs, HandledMsg(r))
                /\ fwd' = fwd \ {t}
           ELSE /\ res' = [res EXCEPT
                       ![r] = set_500(res[r],
                          << "Forwarding for http method not implemented: ",
                             rq[r].method >>)]
                /\ msgs' = Append(msgs, HandledMsg(r))
                /\ fwd' = fwd \ {t}
    /\ UNCHANGED << node, is_leader, leader_id, shut_down, crashed, log,
                    committed, last_applied, applyPc, iter_end,
                    await_notified, fsm_error, rq, store, db_open,
                    collections, applied, snapPc, snapArg,
                    last_snapshot_index, snapshot_requested,
                    ext_snapshot_path, last_snap, last_load >>
    /\ UNCHANGED << nodesVars, workerVars, indexVars >>

\* HttpClient::post_response_async returned: the request and the response
\* are deleted; on status 500 the deleted response is written and both are
\* sent on (use after free: the process dies, or the message goes out)
forward_import_done(t, status, dies) ==
    /\ ~crashed
    /\ t \in fwd /\ t.pc = "posting"
    /\ rq' = [rq EXCEPT ![t.req].freed = TRUE]
    /\ fwd' = fwd \ {t}
    /\ IF status = 500
       THEN IF dies
            THEN crashed' = TRUE /\ UNCHANGED msgs
            ELSE msgs' = Append(msgs, HandledMsg(t.req)) /\ UNCHANGED crashed
       ELSE UNCHANGED << crashed, msgs >>
    /\ UNCHANGED << node, is_leader, leader_id, shut_down, log, committed,
                    last_applied, applyPc, iter_end, await_notified,
                    fsm_error, res, store, db_open, collections, applied,
                    snapPc, snapArg, last_snapshot_index,
                    snapshot_requested, ext_snapshot_path, last_snap,
                    last_load >>
    /\ UNCHANGED << nodesVars, workerVars, indexVars >>

(***************************************************************************)
(* ReplicationState: applying committed entries.                           *)
(***************************************************************************)
\* braft hands on_apply the batch of committed entries not yet applied
on_apply_begin ==
    /\ node /\ ~crashed /\ ~fsm_error
    /\ applyPc = "idle"
    /\ last_applied < committed
    /\ iter_end' = committed
    /\ applyPc' = "iter"
    /\ UNCHANGED << node, is_leader, leader_id, shut_down, crashed, log,
                    committed, last_applied, await_notified, fsm_error, msgs,
                    rq, res, fwd, store, db_open, collections, applied,
                    snapPc, snapArg, last_snapshot_index,
                    snapshot_requested, ext_snapshot_path, last_snap,
                    last_load >>
    /\ UNCHANGED << nodesVars, workerVars, indexVars >>

\* ReplicationState::on_apply, one turn of the loop up to response->await.wait()
on_apply ==
    /\ ~crashed
    /\ applyPc = "iter"
    /\ IF last_applied >= iter_end
       THEN \* iter.valid() is false
            /\ applyPc' = "idle"
            /\ UNCHANGED << last_applied, msgs, snapshot_requested >>
       ELSE LET e == log[last_applied + 1]
            IN  IF e.kind = INIT_SNAPSHOT
                THEN \* node->snapshot(init_snapshot_closure); continue
                     /\ snapshot_requested' = "init"
                     /\ last_applied' = last_applied + 1
                     /\ UNCHANGED << applyPc, msgs >>
                ELSE \* send_message(REPLICATION_MSG, replication_arg)
                     /\ msgs' = Append(msgs, [route |-> "write", req |-> e.req,
                                              method |-> e.method,
                                              idx |-> last_applied + 1])
                     /\ applyPc' = "await"
                     /\ UNCHANGED << last_applied, snapshot_requested >>
    /\ UNCHANGED << node, is_leader, leader_id, shut_down, crashed, log,
                    committed, iter_end, await_notified, fsm_error, rq, res,
                    fwd, store, db_open, collections, applied, snapPc,
                    snapArg, last_snapshot_index, ext_snapshot_path,
                    last_snap, last_load >>
    /\ UNCHANGED << nodesVars, workerVars, indexVars >>

\* on_apply going on without response->await.wait()
on_apply_resume_nowait ==
    /\ ~crashed
    /\ applyPc = "await"
    /\ await_notified' = FALSE
    /\ last_applied' = last_applied + 1
    /\ applyPc' = "iter"
    /\ UNCHANGED << node, is_leader, leader_id, shut_down, crashed, log,
                    committed, iter_end, msgs, rq, res, fwd, store, db_open,
                    collections, applied, snapPc, snapArg, fsm_error,
                    last_snapshot_index, snapshot_requested,
                    ext_snapshot_path, last_snap, last_load >>
    /\ UNCHANGED << nodesVars, workerVars, indexVars >>

\* ReplicationState::on_apply, from response->await.wait() to the end of the
\* turn: the wait returns once the http thread has notified
on_apply_resume ==
    /\ ~crashed
    /\ applyPc = "await"
    /\ await_notified
    /\ await_notified' = FALSE
    /\ IF shut_down
       THEN \* iter.set_error_and_rollback(); return: the entry is rolled back
            /\ fsm_error' = TRUE
            /\ applyPc' = "idle"
            /\ UNCHANGED last_applied
       ELSE \* iter.next()
            /\ last_applied' = last_applied + 1
            /\ applyPc' = "iter"
            /\ UNCHANGED fsm_error
    /\ UNCHANGED << node, is_leader, leader_id, shut_down, crashed, log,
                    committed, iter_end, msgs, rq, res, fwd, store, db_open,
                    collections, applied, snapPc, snapArg,
                    last_snapshot_index, snapshot_requested,
                    ext_snapshot_path, last_snap, last_load >>
    /\ UNCHANGED << nodesVars, workerVars, indexVars >>

\* the http thread takes the next REPLICATION_MSG: it runs the write of the
\* entry against the Index and the store in one step and notifies the
\* response's await; a message that is ALREADY_HANDLED only sends the response
raft_write_send_response ==
    /\ ~crashed
    /\ msgs # << >>
    /\ msgs' = Tail(msgs)
    /\ LET msg == Head(msgs)
       IN  IF msg.route = "write"
           THEN /\ store' = run_write(store, msg.method, msg.idx)
                /\ collections' = run_write(collections, msg.method, msg.idx)
                /\ applied' = Append(applied, msg.idx)
                /\ await_notified' = TRUE
           ELSE UNCHANGED << store, collections, applied, await_notified >>
    /\ UNCHANGED << node, is_leader, leader_id, shut_down, crashed, log,
                    committed, last_applied, applyPc, iter_end, fsm_error,
                    rq, res, fwd, db_open, snapPc, snapArg,
                    last_snapshot_index, snapshot_requested,
                    ext_snapshot_path, last_snap, last_load >>
    /\ UNCHANGED << nodesVars, workerVars, indexVars >>

(***************************************************************************)
(* ReplicationState: the store, snapshot save and snapshot load.           *)
(***************************************************************************)
\* where init_db can fail: CreateDirectory, store->init_db, or
\* CollectionManager::load
InitDbFails == {"none", "mkdir", "open", "load"}

\* CollectionManager::load: the collections and Indices in memory are
\* rebuilt from what the store holds
load(dir) == dir

\* ReplicationState::init_db: its return value
init_db_ret(fail) ==
    IF fail \in {"mkdir", "open"} THEN -1 ELSE IF fail = "load" THEN 1 ELSE 0

\* ReplicationState::init_db on a state directory holding dir
init_db(dir, fail) ==
    /\ db_open' = (fail \notin {"mkdir", "open"})
    /\ IF fail = "none"
       THEN collections' = load(dir)
       ELSE UNCHANGED collections

\* ReplicationState::start (no snapshot exists when the node first starts,
\* and create_init_db_snapshot is off: the db dir is removed and set up fresh)
start(fail) ==
    /\ ~node /\ ~crashed
    /\ IF fail = "parse"
       THEN UNCHANGED << node, store, db_open, collections >>
       ELSE IF fail = "rm"
       THEN \* reset_db(), then DeleteFile failed
            /\ db_open' = FALSE
            /\ UNCHANGED << node, store, collections >>
       ELSE /\ store' = {}
            /\ init_db({}, IF fail \in InitDbFails THEN fail ELSE "none")
            /\ node' = (fail \in {"none"})
    /\ UNCHANGED << is_leader, leader_id, shut_down, crashed, log, committed,
                    last_applied, applyPc, iter_end, await_notified,
                    fsm_error, msgs, rq, res, fwd, applied, snapPc, snapArg,
                    last_snapshot_index, snapshot_requested,
                    ext_snapshot_path, last_snap, last_load >>
    /\ caught_up' = IF fail = "parse" THEN caught_up ELSE FALSE
    /\ UNCHANGED << refreshed, workerVars, indexVars >>

\* braft's snapshot timer fires (snapshot_interval_s)
snapshot_timer ==
    /\ node /\ ~crashed
    /\ snapshot_requested = "none" /\ snapPc = "idle"
    /\ snapshot_requested' = "timer"
    /\ UNCHANGED << node, is_leader, leader_id, shut_down, crashed, log,
                    committed, last_applied, applyPc, iter_end,
                    await_notified, fsm_error, msgs, rq, res, fwd, store,
                    db_open, collections, applied, snapPc, snapArg,
                    last_snapshot_index, ext_snapshot_path, last_snap,
                    last_load >>
    /\ UNCHANGED << nodesVars, workerVars, indexVars >>

\* ReplicationState::do_snapshot
do_snapshot ==
    /\ node /\ ~crashed
    /\ snapshot_requested = "none" /\ snapPc = "idle"
    /\ ext_snapshot_path' = TRUE
    /\ snapshot_requested' = "ondemand"
    /\ UNCHANGED << node, is_leader, leader_id, shut_down, crashed, log,
                    committed, last_applied, applyPc, iter_end,
                    await_notified, fsm_error, msgs, rq, res, fwd, store,
                    db_open, collections, applied, snapPc, snapArg,
                    last_snapshot_index, last_snap, last_load >>
    /\ UNCHANGED << nodesVars, workerVars, indexVars >>

\* InitSnapshotClosure::Run and OnDemandSnapshotClosure::Run
RunClosure(closure, ok, fail) ==
    /\ IF closure = "init" /\ ok
       THEN \* reset_db(); init_db()
            init_db(store, fail)
       ELSE UNCHANGED << db_open, collections >>
    /\ IF closure = "ondemand"
       THEN ext_snapshot_path' = FALSE
       ELSE UNCHANGED ext_snapshot_path

\* braft runs the closure at once when fewer than
\* raft_do_snapshot_min_index_gap entries were applied since the last snapshot
snapshot_skipped(fail) ==
    /\ ~crashed
    /\ snapshot_requested # "none" /\ snapPc = "idle" /\ applyPc = "idle"
    /\ last_applied - last_snapshot_index < raft_do_snapshot_min_index_gap
    /\ RunClosure(snapshot_requested, TRUE, fail)
    /\ snapshot_requested' = "none"
    /\ UNCHANGED << node, is_leader, leader_id, shut_down, crashed, log,
                    committed, last_applied, applyPc, iter_end,
                    await_notified, fsm_error, msgs, rq, res, fwd, store,
                    applied, snapPc, snapArg, last_snapshot_index, last_snap,
                    last_load >>
    /\ UNCHANGED << nodesVars, workerVars, indexVars >>

\* ReplicationState::on_snapshot_save. outcome: ok; "checkpoint": CreateCheckpoint
\* failed; "create": Checkpoint::Create failed and the null checkpoint is used
\* (the process dies, or goes on to a failing CreateCheckpoint)
on_snapshot_save(outcome, dies) ==
    /\ ~crashed
    /\ snapshot_requested # "none" /\ snapPc = "idle" /\ applyPc = "idle"
    /\ last_applied - last_snapshot_index >= raft_do_snapshot_min_index_gap
    /\ IF outcome = "create" /\ dies
       THEN /\ crashed' = TRUE
            /\ UNCHANGED << snapPc, snapArg, ext_snapshot_path,
                            snapshot_requested >>
       ELSE /\ snapArg' = [db_snapshot |-> IF outcome = "ok" THEN store ELSE {},
                           ext |-> ext_snapshot_path,
                           ok |-> (outcome = "ok"),
                           index |-> last_applied,
                           closure |-> snapshot_requested]
            /\ ext_snapshot_path' = FALSE
            /\ snapshot_requested' = "none"
            /\ snapPc' = "saving"
            /\ UNCHANGED crashed
    /\ UNCHANGED << node, is_leader, leader_id, shut_down, log, committed,
                    last_applied, applyPc, iter_end, await_notified,
                    fsm_error, msgs, rq, res, fwd, store, db_open,
                    collections, applied, last_snapshot_index, last_snap,
                    last_load >>
    /\ UNCHANGED << nodesVars, workerVars, indexVars >>

\* a do_dummy_write() that posts whether or not a leader is known
do_dummy_write_always ==
    << get_leader_url_path(PeerAddr(leader_id), "/health", "http") >>

\* ReplicationState::do_dummy_write: the POST it sends, if any
do_dummy_write ==
    IF leader_id = NoLeader
    THEN NoPost
    ELSE << get_leader_url_path(PeerAddr(leader_id), "/health", "http") >>

\* ReplicationState::save_snapshot, on its own bthread. The checkpoint
\* directory holds files iff the checkpoint was created; add_ok: add_file
\* succeeds for each of them
save_snapshot(add_ok, fail) ==
    /\ ~crashed
    /\ snapPc = "saving"
    /\ snapPc' = "idle"
    /\ snapArg' = NoArg
    /\ IF snapArg.ok /\ ~add_ok
       THEN \* "Fail to add file to writer.": return
            /\ last_snap' = [ran |-> TRUE, files_added |-> FALSE,
                             leader |-> leader_id, post |-> NoPost]
            /\ RunClosure(snapArg.closure, FALSE, fail)
            /\ UNCHANGED last_snapshot_index
       ELSE /\ last_snap' = [ran |-> TRUE, files_added |-> TRUE,
                             leader |-> leader_id, post |-> do_dummy_write]
            /\ RunClosure(snapArg.closure, snapArg.ok, fail)
            /\ last_snapshot_index' =
                  IF snapArg.ok THEN snapArg.index ELSE last_snapshot_index
    /\ UNCHANGED << node, is_leader, leader_id, shut_down, crashed, log,
                    committed, last_applied, applyPc, iter_end,
                    await_notified, fsm_error, msgs, rq, res, fwd, store,
                    applied, snapshot_requested, last_load >>
    /\ UNCHANGED << nodesVars, workerVars, indexVars >>

\* the store content of the snapshot taken at log index k
SnapshotContent(k) ==
    { i \in 1..k : /\ log[i].kind = "write"
                   /\ log[i].method # "DELETE"
                   /\ \A j \in (i + 1)..k : log[j].method # "DELETE" }

\* where on_snapshot_load can fail: DeleteFile, copy_dir, or in init_db
LoadFails == {"rm", "copy"} \cup InitDbFails

\* an on_snapshot_load() that copied the snapshot over the old store
on_snapshot_load_over(k, fail, left) ==
    /\ node /\ ~crashed
    /\ ~is_leader
    /\ applyPc = "idle" /\ snapPc = "idle"
    /\ k \in last_applied..Len(log)
    /\ fail = "none" /\ left = {}
    /\ store' = store \cup SnapshotContent(k)
    /\ init_db(store', fail)
    /\ last_load' = [ran |-> TRUE, ret |-> 0, loaded |-> TRUE]
    /\ last_applied' = k
    /\ committed' = IF committed < k THEN k ELSE committed
    /\ UNCHANGED << node, is_leader, leader_id, shut_down, crashed, log,
                    applyPc, iter_end, await_notified, msgs, rq, res, fwd,
                    applied, snapPc, snapArg, last_snapshot_index, fsm_error,
                    snapshot_requested, ext_snapshot_path, last_snap >>
    /\ UNCHANGED << nodesVars, workerVars, indexVars >>

\* ReplicationState::on_snapshot_load of the snapshot at index k; left: what
\* a failed DeleteFile or copy_dir left in the state directory
on_snapshot_load(k, fail, left) ==
    /\ node /\ ~crashed
    /\ ~is_leader
    /\ applyPc = "idle" /\ snapPc = "idle"
    /\ k \in last_applied..Len(log)
    /\ IF fail = "rm"
       THEN /\ left \subseteq store
            /\ store' = left
            /\ db_open' = FALSE
            /\ UNCHANGED collections
            /\ last_load' = [ran |-> TRUE, ret |-> -1, loaded |-> FALSE]
       ELSE IF fail = "copy"
       THEN /\ left \subseteq SnapshotContent(k)
            /\ store' = left
            /\ db_open' = FALSE
            /\ UNCHANGED collections
            /\ last_load' = [ran |-> TRUE, ret |-> -1, loaded |-> FALSE]
       ELSE /\ left = {}
            /\ store' = left \cup SnapshotContent(k)
            /\ init_db(store', fail)
            /\ last_load' = [ran |-> TRUE, ret |-> init_db_ret(fail),
                             loaded |-> (fail = "none")]
    /\ IF fail = "none"
       THEN /\ last_applied' = k
            /\ committed' = IF committed < k THEN k ELSE committed
            /\ UNCHANGED fsm_error
       ELSE /\ fsm_error' = TRUE
            /\ UNCHANGED << last_applied, committed >>
    /\ UNCHANGED << node, is_leader, leader_id, shut_down, crashed, log,
                    applyPc, iter_end, await_notified, msgs, rq, res, fwd,
                    applied, snapPc, snapArg, last_snapshot_index,
                    snapshot_requested, ext_snapshot_path, last_snap >>
    /\ UNCHANGED << nodesVars, workerVars, indexVars >>

(***************************************************************************)
(* Index::run_search: the worker thread of an Index, and the main thread   *)
(* that hands it one search at a time.                                     *)
(***************************************************************************)
SearchIds == 1..MaxSearch

workerOnly == UNCHANGED << replVars, nodesVars, indexVars >>

\* Index::Index: the concurrency primitives
WorkerInit ==
    /\ m = "none"
    /\ ready = FALSE
    /\ processed = FALSE
    /\ terminate = FALSE
    /\ search_params = 0
    /\ workerPc = "top"
    /\ mainPc = "idle"
    /\ executed = [q \in SearchIds |-> 0]

\* run_search: std::unique_lock<std::mutex> lk(m)
run_search_lock ==
    /\ workerPc = "top"
    /\ m = "none"
    /\ m' = "worker"
    /\ workerPc' = "wait"
    /\ UNCHANGED << ready, processed, terminate, search_params, mainPc,
                    executed >>
    /\ workerOnly

\* run_search: cv.wait(lk, [this]{return ready;}): with ready the wait is
\* over and the lock is owned, without it the lock is released and the
\* thread blocks
run_search_wait ==
    /\ workerPc = "wait"
    /\ m = "worker"
    /\ IF ready
       THEN workerPc' = "woken" /\ UNCHANGED m
       ELSE workerPc' = "blocked" /\ m' = "none"
    /\ UNCHANGED << ready, processed, terminate, search_params, mainPc,
                    executed >>
    /\ workerOnly

\* run_search: the blocked thread wakes (notified, or spuriously), takes the
\* lock again and tests the predicate again
run_search_wake ==
    /\ workerPc = "blocked"
    /\ m = "none"
    /\ m' = "worker"
    /\ workerPc' = "wait"
    /\ UNCHANGED << ready, processed, terminate, search_params, mainPc,
                    executed >>
    /\ workerOnly

\* a run_search that does not look at terminate
run_search_check_terminate_not ==
    /\ workerPc = "woken"
    /\ workerPc' = "search"
    /\ UNCHANGED << m, ready, processed, terminate, search_params, mainPc,
                    executed >>
    /\ workerOnly

\* run_search: if(terminate) break; leaving the loop releases the lock
run_search_check_terminate ==
    /\ workerPc = "woken"
    /\ IF terminate
       THEN workerPc' = "done" /\ m' = "none"
       ELSE workerPc' = "search" /\ UNCHANGED m
    /\ UNCHANGED << ready, processed, terminate, search_params, mainPc,
                    executed >>
    /\ workerOnly

\* run_search: search(search_params->...), with the lock owned
run_search_search ==
    /\ workerPc = "search"
    /\ executed' = [executed EXCEPT ![search_params] = @ + 1]
    /\ workerPc' = "handback"
    /\ UNCHANGED << m, ready, processed, terminate, search_params, mainPc >>
    /\ workerOnly

\* a hand back that leaves ready set
run_search_handback_ready ==
    /\ workerPc = "handback"
    /\ processed' = TRUE
    /\ m' = "none"
    /\ workerPc' = "top"
    /\ UNCHANGED << ready, terminate, search_params, mainPc, executed >>
    /\ workerOnly

\* run_search: processed = true; ready = false; lk.unlock(); cv.notify_one()
run_search_handback ==
    /\ workerPc = "handback"
    /\ processed' = TRUE
    /\ ready' = FALSE
    /\ m' = "none"
    /\ workerPc' = "top"
    /\ UNCHANGED << terminate, search_params, mainPc, executed >>
    /\ workerOnly

\* the main thread is to hand a search to the worker: it takes the mutex
send_search_lock ==
    /\ mainPc = "idle"
    /\ ~terminate
    /\ search_params < MaxSearch
    /\ m = "none"
    /\ m' = "main"
    /\ mainPc' = "sending"
    /\ UNCHANGED << ready, processed, terminate, search_params, workerPc,
                    executed >>
    /\ workerOnly

\* under the mutex the main thread sets search_params, ready = true and
\* processed = false; it releases the mutex and notifies the worker
send_search(q) ==
    /\ mainPc = "sending"
    /\ q = search_params + 1
    /\ search_params' = q
    /\ ready' = TRUE
    /\ processed' = FALSE
    /\ m' = "none"
    /\ mainPc' = "sent"
    /\ UNCHANGED << terminate, workerPc, executed >>
    /\ workerOnly

\* the main thread takes the mutex to wait for the result
await_processed_lock ==
    /\ mainPc = "sent"
    /\ m = "none"
    /\ m' = "main"
    /\ mainPc' = "wait"
    /\ UNCHANGED << ready, processed, terminate, search_params, workerPc,
                    executed >>
    /\ workerOnly

\* cv.wait(lk, [index]{return index->processed;}) of the main thread: with
\* processed it goes on and releases the mutex, without it it releases the
\* mutex and blocks
await_processed ==
    /\ mainPc = "wait"
    /\ m = "main"
    /\ m' = "none"
    /\ mainPc' = IF processed THEN "idle" ELSE "blocked"
    /\ UNCHANGED << ready, processed, terminate, search_params, workerPc,
                    executed >>
    /\ workerOnly

\* the blocked main thread wakes (notified, or spuriously) and takes the
\* mutex to test the predicate again
await_processed_wake ==
    /\ mainPc = "blocked"
    /\ m = "none"
    /\ m' = "main"
    /\ mainPc' = "wait"
    /\ UNCHANGED << ready, processed, terminate, search_params, workerPc,
                    executed >>
    /\ workerOnly

\* tear down: the main thread takes the mutex
tear_down_lock ==
    /\ mainPc = "idle"
    /\ ~terminate
    /\ m = "none"
    /\ m' = "main"
    /\ mainPc' = "tearing"
    /\ UNCHANGED << ready, processed, terminate, search_params, workerPc,
                    executed >>
    /\ workerOnly

\* tear down: under the mutex the main thread sets ready and terminate; it
\* releases the mutex, notifies the worker and joins it
tear_down ==
    /\ mainPc = "tearing"
    /\ ready' = TRUE
    /\ terminate' = TRUE
    /\ m' = "none"
    /\ mainPc' = "joining"
    /\ UNCHANGED << processed, search_params, workerPc, executed >>
    /\ workerOnly

\* the steps of the worker thread
run_search ==
    \/ run_search_lock
    \/ run_search_wait
    \/ run_search_wake
    \/ run_search_check_terminate
    \/ run_search_search
    \/ run_search_handback

(***************************************************************************)
(* Index: schema, JSON documents, tokens.                                  *)
(***************************************************************************)
\* field_types
FieldTypes ==
    {"string", "int32", "int64", "float", "bool",
     "string[]", "int32[]", "int64[]", "float[]", "bool[]"}

\* the methods of field
is_array(type) == type \in {"string[]", "int32[]", "int64[]", "float[]", "bool[]"}
is_string(type) == type \in {"string", "string[]"}
is_int32(type) == type \in {"int32", "int32[]"}
is_int64(type) == type \in {"int64", "int64[]"}
is_integer(type) == is_int32(type) \/ is_int64(type)
is_float(type) == type \in {"float", "float[]"}
is_bool(type) == type \in {"bool", "bool[]"}
faceted_name(f) == "_fstr_" \o f

\* a field of a schema
Field(type, is_optional, is_facet) ==
    [type |-> type, optional |-> is_optional, facet |-> is_facet]

\* the schema of the text collection: title is a string, tags an optional
\* faceted string array, points the int32 default sorting field
TextSchema ==
    [title |-> Field("string", FALSE, FALSE),
     tags |-> Field("string[]", TRUE, TRUE),
     points |-> Field("int32", FALSE, FALSE)]

\* the schemas of the typed collections: points is the int32 default sorting
\* field, value a field of any type, required or an optional facet
TypedSchemas ==
    { [points |-> Field("int32", FALSE, FALSE),
       value |-> Field(type, is_facet, is_facet)] :
         type \in FieldTypes, is_facet \in BOOLEAN }

default_sorting_field == "points"

\* the fields of search_schema, by kind
Fields == DOMAIN search_schema
StringFields == { f \in Fields : is_string(search_schema[f].type) }
NumericFields == { f \in Fields : ~is_string(search_schema[f].type) }
\* facet_schema, and sort_schema: the fields index_in_memory looks up in
\* sort_index
FacetFields == { f \in Fields : search_schema[f].facet }
SortFields ==
    { f \in Fields : search_schema[f].type \in {"int32", "int64", "float", "bool"} }
\* the names of the ARTs of search_index
TreeNames ==
    StringFields \cup { faceted_name(f) : f \in FacetFields \ StringFields }

\* a schema whose fields are all taken as optional
optional_always(f) == TRUE
optional(f) == search_schema[f].optional
facet(f) == search_schema[f].facet

(***************************************************************************)
(* A 64 bit integer is a pair << hi, lo >> of value hi * 2^31 + lo with lo *)
(* in 0 .. 2^31 - 1; a float is the pair << sign, rest >> of the sign bit  *)
(* and the other 31 bits of its IEEE 754 single precision encoding. A JSON *)
(* value is the pair of its type and its content: a text (the sequence of  *)
(* its words) for a string, a 64 bit integer, a float, a boolean, or the   *)
(* sequence of its elements for an array.                                  *)
(***************************************************************************)
INT32_MAX == 2147483647

RECURSIVE Pow2(_)
Pow2(n) == IF n <= 0 THEN 1 ELSE 2 * Pow2(n - 1)

\* the floor of log2 of n >= 1
RECURSIVE Log2(_)
Log2(n) == IF n <= 1 THEN 0 ELSE 1 + Log2(n \div 2)

I64(n) == IF n >= 0 THEN << 0, n >> ELSE << -1, (n + INT32_MAX) + 1 >>
\* the value of a pair that fits 32 bits
Small(x) == IF x[1] = 0 THEN x[2] ELSE (x[2] - INT32_MAX) - 1
less(x, y) == x[1] < y[1] \/ (x[1] = y[1] /\ x[2] < y[2])
\* the 64 bit integer -x, for x > 0
Negated(x) ==
    IF x[2] = 0 THEN << 0 - x[1], 0 >>
    ELSE << (0 - x[1]) - 1, (INT32_MAX - x[2]) + 1 >>

\* static_cast to int32_t and to uint32_t, then widened to 64 bits
as_int32(x) == << 0 - (x[1] % 2), x[2] >>
as_uint32(x) == << x[1] % 2, x[2] >>

\* json::type
json_type(v) == v[1]

\* an integer below 2^32 in magnitude converted to float (exact below 2^24,
\* the low bits dropped above)
int_to_float(x) ==
    LET mag == IF x[1] >= 0 THEN x ELSE Negated(x)
        sign == IF x[1] < 0 THEN 1 ELSE 0
        k == Log2(mag[2])
        frac == mag[2] - Pow2(k)
    IN  IF mag = << 0, 0 >> THEN << 0, 0 >>
        ELSE IF mag[1] = 0
        THEN << sign,
               (k + 127) * Pow2(23)
                 + (IF k <= 23 THEN frac * Pow2(23 - k)
                    ELSE frac \div Pow2(k - 23)) >>
        ELSE << sign, (31 + 127) * Pow2(23) + (mag[2] \div Pow2(8)) >>

\* a float below 2^32 in magnitude converted to an integer: the fraction is
\* dropped
float_to_int(fl) ==
    LET e == fl[2] \div Pow2(23)
        mant == Pow2(23) + (fl[2] % Pow2(23))
        mag == IF e < 127 THEN << 0, 0 >>
               ELSE IF e <= 150 THEN << 0, mant \div Pow2(150 - e) >>
               ELSE IF e <= 157 THEN << 0, mant * Pow2(e - 150) >>
               ELSE << 1, (mant - Pow2(23)) * Pow2(8) >>
    IN  IF fl[1] = 0 \/ mag = << 0, 0 >> THEN mag ELSE Negated(mag)

\* a boolean taken as a number
bool_to_int(b) == IF b THEN I64(1) ELSE I64(0)

\* json::get of an integer and of a float: a number converts to either,
\* and a boolean converts where get takes it
to_int(v) ==
    IF json_type(v) = "integer" THEN v[2]
    ELSE IF json_type(v) = "boolean" THEN bool_to_int(v[2])
    ELSE float_to_int(v[2])
to_float(v) ==
    IF json_type(v) = "float" THEN v[2]
    ELSE IF json_type(v) = "boolean" THEN int_to_float(bool_to_int(v[2]))
    ELSE int_to_float(v[2])

\* the elements of an array field, or the one value of a single field
Elements(type, v) == IF is_array(type) THEN v[2] ELSE << v >>

\* std::to_string of an integer and of a float ("%f", for a float with at
\* most 8 fractional bits)
Digits6(n) ==
    IF n < 10 THEN "00000" \o ToString(n)
    ELSE IF n < 100 THEN "0000" \o ToString(n)
    ELSE IF n < 1000 THEN "000" \o ToString(n)
    ELSE IF n < 10000 THEN "00" \o ToString(n)
    ELSE IF n < 100000 THEN "0" \o ToString(n)
    ELSE ToString(n)

int_to_string(x) ==
    IF x[1] \in {0, -1} THEN ToString(Small(x))
    ELSE ToString(x[1]) \o "*2^31+" \o ToString(x[2])

float_to_string(fl) ==
    LET e == fl[2] \div Pow2(23)
        mant == Pow2(23) + (fl[2] % Pow2(23))
        bits == IF e >= 150 \/ e < 127 THEN 0 ELSE 150 - e
        rest == IF bits = 0 THEN 0
                ELSE (mant % Pow2(bits)) \div Pow2(IF bits > 8 THEN bits - 8 ELSE 0)
        scale == IF bits > 8 THEN 8 ELSE bits
    IN  (IF fl[1] = 1 THEN "-" ELSE "")
           \o int_to_string(float_to_int(<< 0, fl[2] >>)) \o "."
           \o Digits6((rest * 1000000) \div Pow2(scale))

(***************************************************************************)
(* The documents the collections are given.                                *)
(***************************************************************************)
\* a text is the sequence of its words
Titles == { << "a" >>, << "a", "B" >>, << "a", "a" >> }
TagLists == { << << "a", "b" >> >>, << << "a" >>, << "b" >> >>, << << "b" >> >> }
Points == { -1, 1 }
Tokens == {"a", "b"}

\* a JSON document is a function from the fields it has to their values
EmptyDoc == << >>
Merge(d1, d2) ==
    [x \in DOMAIN d1 \cup DOMAIN d2 |-> IF x \in DOMAIN d2 THEN d2[x] ELSE d1[x]]

\* the documents of the text collection: every value has the declared type
TextDocuments ==
    { Merge(Merge(t, g), p) :
        t \in {EmptyDoc} \cup
              { [x \in {"title"} |-> << "string", text >>] : text \in Titles },
        g \in {EmptyDoc} \cup
              { [x \in {"tags"} |->
                    << "array", [i \in 1..Len(tags) |-> << "string", tags[i] >>] >>] :
                  tags \in TagLists },
        p \in {EmptyDoc} \cup
              { [x \in {"points"} |-> << "integer", I64(n) >>] : n \in Points } }

\* values of every JSON type, integers in and out of the int32 range, the
\* floats 1.5 and -1.5, and arrays with elements of one type and of two
Values ==
    { << "string", << "a" >> >>, << "boolean", TRUE >>,
      << "integer", I64(1) >>, << "integer", I64(-1) >>,
      << "integer", << 1, 0 >> >>, << "integer", << -2, INT32_MAX >> >>,
      << "float", << 0, 1069547520 >> >>, << "float", << 1, 1069547520 >> >>,
      << "array", << >> >>,
      << "array", << << "string", << "a", "b" >> >>, << "string", << "a" >> >> >> >>,
      << "array", << << "string", << "a" >> >>, << "integer", I64(1) >> >> >>,
      << "array", << << "integer", I64(1) >>, << "integer", I64(-1) >> >> >>,
      << "array", << << "integer", I64(1) >>, << "float", << 0, 1069547520 >> >> >> >>,
      << "array", << << "integer", << 1, 0 >> >> >> >>,
      << "array", << << "integer", I64(1) >>, << "boolean", TRUE >> >> >>,
      << "array", << << "boolean", TRUE >>, << "boolean", FALSE >> >> >> }

TypedDocuments ==
    { Merge(p, v) :
        p \in {EmptyDoc} \cup
              { [x \in {"points"} |-> n] :
                  n \in { << "integer", I64(1) >>, << "string", << "a" >> >> } },
        v \in {EmptyDoc} \cup { [x \in {"value"} |-> n] : n \in Values } }

\* the documents a collection of the schema is given
Documents == IF "title" \in Fields THEN TextDocuments ELSE TypedDocuments

\* json::count and json::erase
count(document, f) == IF f \in DOMAIN document THEN 1 ELSE 0

erase(document, f) == [x \in DOMAIN document \ {f} |-> document[x]]

(***************************************************************************)
(* Index: tokens, offsets and facet hashes.                                *)
(***************************************************************************)
\* Tokenizer with normalize: words are lower-cased; the canonical string of
\* a number or a bool is one token (no_op)
Normalize(word) == IF word = "B" THEN "b" ELSE word

\* Tokenizer::tokenize: the tokens of a text, in order
tokenize(text) == [i \in 1..Len(text) |-> Normalize(text[i])]

TokensOf(text) == { Normalize(text[i]) : i \in 1..Len(text) }

\* the token_index values (from 0) at which the tokenizer yields token
token_offsets(text, token) ==
    LET toks == tokenize(text)
        upto[n \in 0..Len(toks)] ==
            IF n = 0 THEN << >>
            ELSE IF toks[n] = token THEN Append(upto[n - 1], n - 1)
                 ELSE upto[n - 1]
    IN  upto[Len(toks)]

\* Index::index_string_field: token_to_offsets of a text
string_field_offsets(text, token) == token_offsets(text, token)

\* Index::index_string_array_field: token_positions of the strings: for each
\* element that has the token, its offsets there, the last one repeated,
\* then the array index
array_field_offsets(positions) ==
    LET upto[n \in 0..Len(positions)] ==
            IF n = 0 THEN << >>
            ELSE LET here == positions[n]
                 IN  IF here = << >> THEN upto[n - 1]
                     ELSE upto[n - 1] \o here \o << here[Len(here)] >>
                                      \o << n - 1 >>
    IN  upto[Len(positions)]

\* Index::index_string_array_field: the offsets it hands to insert_doc for
\* a token of the strings of an array
string_array_field_offsets(strings, token) ==
    array_field_offsets([n \in 1..Len(strings) |->
                            token_offsets(strings[n], token)])

\* the texts index_in_memory indexes for a field, one for each element: the
\* strings of a string field, the std::to_string of the converted values of
\* another
field_texts(type, v) ==
    LET elems == Elements(type, v)
    IN  [i \in 1..Len(elems) |->
            IF is_string(type) THEN elems[i][2]
            ELSE IF is_int32(type) THEN << int_to_string(as_int32(to_int(elems[i]))) >>
            ELSE IF is_int64(type) THEN << int_to_string(to_int(elems[i])) >>
            ELSE IF is_float(type) THEN << float_to_string(to_float(elems[i])) >>
            ELSE << IF elems[i][2] THEN "1" ELSE "0" >>]

\* Index::tokenize_doc_field: the tokens of a string field, those of all the
\* elements of an array one after the other
tokenize_doc_field(document, f) ==
    LET texts == field_texts(search_schema[f].type, document[f])
        upto[n \in 0..Len(texts)] ==
            IF n = 0 THEN << >>
            ELSE upto[n - 1] \o tokenize(texts[n])
    IN  upto[Len(texts)]

\* Index::_arrays_match
arrays_match(reindex_vals, old_vals) ==
    /\ Len(old_vals) = Len(reindex_vals)
    /\ \A i \in 1..Len(reindex_vals) : reindex_vals[i] = old_vals[i]

\* the integers a token can be the string of, and atoll and std::stof of a
\* token
KnownInts ==
    LET given == { I64(-1), I64(0), I64(1), << 1, 0 >>, << -2, INT32_MAX >> }
    IN  given \cup { as_int32(x) : x \in given }

atoll(token) == CHOOSE x \in KnownInts : int_to_string(x) = token
stof(token) ==
    CHOOSE fl \in { << 0, 1069547520 >>, << 1, 1069547520 >> }
                     \cup { int_to_float(x) : x \in KnownInts } :
       float_to_string(fl) = token

\* Index::facet_token_hash: a uint64_t as the 64 bit integer with its bits,
\* or the hash of a string
facet_token_hash(type, token) ==
    IF is_float(type) THEN << "u64", stof(token) >>
    ELSE IF is_integer(type) \/ is_bool(type) THEN << "u64", atoll(token) >>
    ELSE << "hash_wy", token >>

\* std::numeric_limits<uint64_t>::max() has the bits of -1
FACET_ARRAY_DELIMETER == << "u64", I64(-1) >>

\* the hashes index_string_field and index_string_array_field push for a
\* faceted field: those of the tokens of each text, and for an array the
\* delimiter after each element
facet_hashes(type, texts) ==
    LET upto[n \in 0..Len(texts)] ==
            IF n = 0 THEN << >>
            ELSE upto[n - 1]
                   \o [i \in 1..Len(texts[n]) |->
                          facet_token_hash(type, Normalize(texts[n][i]))]
                   \o (IF is_array(type) THEN << FACET_ARRAY_DELIMETER >>
                       ELSE << >>)
    IN  upto[Len(texts)]

(***************************************************************************)
(* Index: the posting lists of the ART leaves.                             *)
(***************************************************************************)
SeqIds == 0..(MaxDocs - 1)

\* art_leaf::values with the leaf's max_score: ids, offset_index, offsets
NewLeaf(score) ==
    [ids |-> << >>, offset_index |-> << >>, offsets |-> << >>,
     max_score |-> score]

\* a map with key k set to v, and with key k erased
Put(map, k, v) == [x \in DOMAIN map \cup {k} |-> IF x = k THEN v ELSE map[x]]
Erase(map, k) == [x \in DOMAIN map \ {k} |-> map[x]]
EmptyMap == [x \in {} |-> 0]

\* sorted_array::indexOf: the index (from 0) of value, or the length
indexOf(ids, value) ==
    IF \E i \in 1..Len(ids) : ids[i] = value
    THEN (CHOOSE i \in 1..Len(ids) : ids[i] = value) - 1
    ELSE Len(ids)

\* sorted_array::remove_value
remove_value(ids, value) ==
    LET keep(x) == x # value IN SelectSeq(ids, keep)

\* array::remove_index: drops the elements at start_index .. end_index - 1
remove_index(arr, start_index, end_index) ==
    SubSeq(arr, 1, start_index) \o SubSeq(arr, end_index + 1, Len(arr))

\* art_insert of one art_document: a posting for seq_id goes into the leaf of
\* the token, the ids kept ascending and the offsets of the document put
\* where its slice belongs
art_insert(tree, token, seq_id, score, doc_offsets) ==
    LET leaf == IF token \in DOMAIN tree THEN tree[token] ELSE NewLeaf(score)
        at == Cardinality({ i \in 1..Len(leaf.ids) : leaf.ids[i] < seq_id })
        n == Len(leaf.ids)
        slot == IF at < n THEN leaf.offset_index[at + 1] ELSE Len(leaf.offsets)
    IN  Put(tree, token,
            [ids |-> SubSeq(leaf.ids, 1, at) \o << seq_id >>
                        \o SubSeq(leaf.ids, at + 1, n),
             offset_index |->
                 SubSeq(leaf.offset_index, 1, at) \o << slot >>
                    \o [i \in 1..(n - at) |->
                           leaf.offset_index[at + i] + Len(doc_offsets)],
             offsets |-> SubSeq(leaf.offsets, 1, slot) \o doc_offsets
                            \o SubSeq(leaf.offsets, slot + 1, Len(leaf.offsets)),
             max_score |-> IF less(score, leaf.max_score) THEN leaf.max_score
                           ELSE score])

\* Index::insert_doc: one art_insert for each token of token_to_offsets
RECURSIVE insert_doc(_, _, _, _, _)
insert_doc(score, tree, seq_id, token_to_offsets, tokens) ==
    IF tokens = {} THEN tree
    ELSE LET token == CHOOSE t \in tokens : TRUE
             rest == insert_doc(score, tree, seq_id, token_to_offsets,
                                tokens \ {token})
         IN  IF token_to_offsets[token] = << >> THEN rest
             ELSE art_insert(rest, token, seq_id, score,
                             token_to_offsets[token])

\* the loop of remove_and_shift_offset_index
RECURSIVE shift_loop(_, _, _, _, _, _)
shift_loop(offset_index, indices_sorted, curr_index, indices_counter, shift_value, new_array) ==
    IF curr_index >= Len(offset_index) THEN new_array
    ELSE IF /\ indices_counter < Len(indices_sorted)
            /\ curr_index >= indices_sorted[indices_counter + 1]
    THEN IF curr_index = indices_sorted[indices_counter + 1]
         THEN \* skip copying
              LET next == curr_index + 1
                  diff == IF next = Len(offset_index) THEN 0
                          ELSE offset_index[next + 1] - offset_index[next]
              IN  shift_loop(offset_index, indices_sorted, next,
                             indices_counter + 1, shift_value + diff, new_array)
         ELSE shift_loop(offset_index, indices_sorted, curr_index,
                         indices_counter + 1, shift_value, new_array)
    ELSE shift_loop(offset_index, indices_sorted, curr_index + 1,
                    indices_counter, shift_value,
                    Append(new_array, offset_index[curr_index + 1] - shift_value))

\* a removal from offset_index that does not shift what follows
remove_and_keep_offset_index(offset_index, indices_sorted) ==
    LET upto[n \in 0..Len(offset_index)] ==
            IF n = 0 THEN << >>
            ELSE IF \E i \in 1..Len(indices_sorted) : indices_sorted[i] = n - 1
                 THEN upto[n - 1]
                 ELSE Append(upto[n - 1], offset_index[n])
    IN  upto[Len(offset_index)]

\* Index::remove_and_shift_offset_index
remove_and_shift_offset_index(offset_index, indices_sorted) ==
    shift_loop(offset_index, indices_sorted, 0, 0, 0, << >>)

\* a removal that leaves the leaf of the token as it is
remove_token_skipped(tree, seq_id, token) == tree

\* Index::remove, for one token of a string field
remove_token(tree, seq_id, token) ==
    IF token \notin DOMAIN tree THEN tree
    ELSE LET leaf == tree[token]
             doc_index == indexOf(leaf.ids, seq_id)
         IN  IF doc_index = Len(leaf.ids)
             THEN \* not found: the token repeats in the field
                  tree
             ELSE LET start_offset == leaf.offset_index[doc_index + 1]
                      end_offset ==
                          IF doc_index = Len(leaf.ids) - 1
                          THEN Len(leaf.offsets)
                          ELSE leaf.offset_index[doc_index + 2]
                      left ==
                          [leaf EXCEPT
                             !.offset_index =
                                 remove_and_shift_offset_index(
                                     leaf.offset_index, << doc_index >>),
                             !.offsets = remove_index(leaf.offsets, start_offset,
                                                      end_offset),
                             !.ids = remove_value(leaf.ids, seq_id)]
                  IN  IF Len(left.ids) = 0
                      THEN \* art_delete
                           Erase(tree, token)
                      ELSE Put(tree, token, left)

\* Index::remove, for the tokens of a string field one after the other
RECURSIVE remove_tokens(_, _, _)
remove_tokens(tree, seq_id, tokens) ==
    IF tokens = << >> THEN tree
    ELSE remove_tokens(remove_token(tree, seq_id, Head(tokens)), seq_id,
                       Tail(tokens))

(***************************************************************************)
(* Index: validating, indexing, updating and removing a document.          *)
(***************************************************************************)
\* the index as one value
TheIndex ==
    [search_index |-> search_index, numerical_index |-> numerical_index,
     sort_index |-> sort_index, facet_index_v2 |-> facet_index_v2,
     num_documents |-> num_documents]

\* no search is in progress
NoSearch == [q_include_tokens |-> << >>]

\* Index::Index for a schema, and the collection with no document
NewIndex(schema) ==
    /\ search_schema = schema
    /\ search_index = [t \in TreeNames |-> EmptyMap]
    /\ numerical_index = [f \in NumericFields |-> {}]
    /\ sort_index = [f \in SortFields |-> EmptyMap]
    /\ facet_index_v2 = EmptyMap
    /\ num_documents = 0
    /\ docs = EmptyMap
    /\ next_seq_id = 0
    /\ last_op = [op |-> "none", seq_id |-> 0, code |-> 0, error |-> ""]
    /\ iter_batch = << >>
    /\ thrown = FALSE
    /\ search_args = NoSearch
    /\ filter_ids = << >>
    /\ topster = << >>
    /\ fuzzy_calls = << >>
    /\ score_calls = << >>
    /\ field_runs = << >>
    /\ facet_results = << >>

IndexInit == NewIndex(TextSchema)

\* Option: a value, or a code with an error
Ok(value) == [ok |-> TRUE, value |-> value, code |-> 200, error |-> ""]
Error(code, error) == [ok |-> FALSE, value |-> FALSE, code |-> code, error |-> error]

\* validate_index_in_memory, for one field of the schema: the error, or ""
validate_field(document, f, is_update) ==
    LET type == search_schema[f].type
        v == document[f]
        is(types) == json_type(v) \in types
        is_array_of(types) ==
            /\ json_type(v) = "array"
            /\ (Len(v[2]) > 0 => json_type(v[2][1]) \in types)
    IN  IF (optional(f) \/ is_update) /\ count(document, f) = 0 THEN ""
        ELSE IF count(document, f) = 0
        THEN "has been declared in the schema, but is not found in the document."
        ELSE IF type = "string"
        THEN IF ~is({"string"}) THEN "must be a string." ELSE ""
        ELSE IF type = "int32"
        THEN IF ~is({"integer"}) THEN "must be an int32."
             ELSE IF less(I64(INT32_MAX), to_int(v))
             THEN "exceeds maximum value of int32."
             ELSE ""
        ELSE IF type = "int64"
        THEN IF ~is({"integer"}) THEN "must be an int64." ELSE ""
        ELSE IF type = "float"
        THEN IF ~is({"integer", "float"}) THEN "must be a float." ELSE ""
        ELSE IF type = "bool"
        THEN IF ~is({"boolean"}) THEN "must be a bool." ELSE ""
        ELSE IF type = "string[]"
        THEN IF ~is_array_of({"string"}) THEN "must be a string array." ELSE ""
        ELSE IF type = "int32[]"
        THEN IF ~is_array_of({"integer"}) THEN "must be an int32 array." ELSE ""
        ELSE IF type = "int64[]"
        THEN IF ~is_array_of({"integer"}) THEN "must be an int64 array." ELSE ""
        ELSE IF type = "float[]"
        THEN IF ~is_array_of({"integer", "float"}) THEN "must be a float array." ELSE ""
        ELSE IF ~is_array_of({"boolean"}) THEN "must be a bool array." ELSE ""

\* Index::validate_index_in_memory: the Option it returns
validate_index_in_memory(document, is_update) ==
    LET has_default_sort_field == count(document, default_sorting_field) # 0
        sort_value == document[default_sorting_field]
        failing == { f \in Fields : validate_field(document, f, is_update) # "" }
    IN  IF ~has_default_sort_field /\ ~is_update
        THEN Error(400, "has been declared as a default sorting field, but is not found in the document.")
        ELSE IF /\ has_default_sort_field
                /\ json_type(sort_value) \notin {"integer", "float"}
        THEN Error(400, "must be a single valued numerical field.")
        ELSE IF /\ has_default_sort_field
                /\ search_schema[default_sorting_field].type = "float"
                /\ to_float(sort_value) = << 0, 255 * Pow2(23) >>
        THEN Error(400, "exceeds maximum value of a float.")
        ELSE IF failing # {}
        THEN Error(400, validate_field(document, CHOOSE f \in failing : TRUE,
                                       is_update))
        ELSE Ok(200)

\* float_to_in64_t without the flip of the bits of a negative float
float_to_in64_t_unflipped(fl) ==
    IF fl[1] = 0 THEN << 0, fl[2] >> ELSE << -1, fl[2] >>

\* Index::float_to_in64_t
float_to_in64_t(fl) ==
    IF fl[1] = 0 THEN << 0, fl[2] >> ELSE << -1, INT32_MAX - fl[2] >>

\* the values of a field that is not a string field, converted to the C++
\* type of the field, as scrub_reindex_doc and remove take them
typed_values(type, v) ==
    LET elems == Elements(type, v)
    IN  [i \in 1..Len(elems) |->
            IF is_int32(type) THEN << "i", as_int32(to_int(elems[i])) >>
            ELSE IF is_int64(type) THEN << "i", to_int(elems[i]) >>
            ELSE IF is_float(type) THEN << "f", to_float(elems[i]) >>
            ELSE << "b", elems[i][2] >>]

\* a conversion of the value of field f throws type_error: validation looks
\* at the first element of an array only. A string converts from a string
\* and a bool from a boolean; int64_t converts from a number, int32_t and
\* float from a number or a boolean
conversion_throws(document, f) ==
    LET type == search_schema[f].type
        elems == Elements(type, document[f])
    IN  /\ count(document, f) # 0
        /\ \E i \in 1..Len(elems) :
              IF is_string(type) THEN json_type(elems[i]) # "string"
              ELSE IF is_bool(type) THEN json_type(elems[i]) # "boolean"
              ELSE IF is_int64(type)
              THEN json_type(elems[i]) \notin {"integer", "float"}
              ELSE json_type(elems[i]) \notin {"integer", "float", "boolean"}

\* some conversion that indexing the document makes throws
throws(document) == \E f \in Fields : conversion_throws(document, f)

\* Index::scrub_reindex_doc, for one field of del_doc: the values match in
\* the update and in the old document
scrub_field(update_doc, old_doc, f) ==
    LET type == search_schema[f].type
    IN  IF is_string(type)
        THEN arrays_match(tokenize_doc_field(update_doc, f),
                          tokenize_doc_field(old_doc, f))
        ELSE arrays_match(typed_values(type, update_doc[f]),
                          typed_values(type, old_doc[f]))

\* Index::scrub_reindex_doc: a field whose values match is erased from the
\* update and from del_doc
scrub_reindex_doc(update_doc, del_doc, old_doc) ==
    LET matching == { f \in DOMAIN del_doc \cap Fields :
                         scrub_field(update_doc, old_doc, f) }
    IN  [doc |-> [f \in DOMAIN update_doc \ matching |-> update_doc[f]],
         del_doc |-> [f \in DOMAIN del_doc \ matching |-> del_doc[f]]]

\* Index::remove, for a field that is not a string field: the keys looked
\* up in the num_tree
remove_keys(type, v) ==
    LET elems == Elements(type, v)
    IN  { IF is_int32(type) THEN as_int32(to_int(elems[i]))
          ELSE IF is_int64(type) THEN to_int(elems[i])
          ELSE IF is_float(type) THEN float_to_in64_t(to_float(elems[i]))
          ELSE IF elems[i][2] THEN I64(1) ELSE I64(0) :
            i \in 1..Len(elems) }

\* Index::remove
remove(ix, seq_id, document) ==
    LET has(f) == f \in DOMAIN document \cap Fields
    IN  [ix EXCEPT
           !.search_index =
               [t \in DOMAIN @ |->
                   IF t \in StringFields /\ has(t)
                   THEN remove_tokens(@[t], seq_id,
                                      tokenize_doc_field(document, t))
                   ELSE @[t]],
           !.numerical_index =
               [f \in DOMAIN @ |->
                   IF has(f)
                   THEN @[f] \ { << k, seq_id >> :
                                   k \in remove_keys(search_schema[f].type,
                                                     document[f]) }
                   ELSE @[f]],
           !.facet_index_v2 =
               IF seq_id \in DOMAIN @
               THEN Put(@, seq_id,
                        [f \in FacetFields |->
                            IF has(f) THEN << >> ELSE @[seq_id][f]])
               ELSE @,
           !.sort_index =
               [f \in DOMAIN @ |-> IF has(f) THEN Erase(@[f], seq_id) ELSE @[f]]]

\* Index::get_points_from_doc: an integer as it is; of a float the 32 bits,
\* read into an int64_t, xor-ed with (points >> 30) | INT32_MIN (the upper 33
\* bits and, by the two top bits of the float, the two lowest), less INT32_MAX
get_points_from_doc(document) ==
    LET v == document[default_sorting_field]
        sign == v[2][1]
        rest == v[2][2]
        top == 2 * sign + (rest \div Pow2(30))
        low == rest % 4
        xor2 == ((low + top) % 2) + 2 * (((low \div 2) + (top \div 2)) % 2)
        xored == rest - low + xor2
    IN  IF json_type(v) = "float"
        THEN IF xored = INT32_MAX
             THEN << -1 - sign, 0 >>
             ELSE << -2 - sign, xored + 1 >>
        ELSE v[2]

\* index_in_memory, for a field that is not a string field: the keys
\* inserted into the num_tree
insert_keys(type, v) ==
    LET elems == Elements(type, v)
    IN  { IF type = "int32" THEN as_uint32(to_int(elems[i]))
          ELSE IF type = "int32[]" THEN as_int32(to_int(elems[i]))
          ELSE IF is_int64(type) THEN to_int(elems[i])
          ELSE IF is_float(type) THEN float_to_in64_t(to_float(elems[i]))
          ELSE IF elems[i][2] THEN I64(1) ELSE I64(0) :
            i \in 1..Len(elems) }

\* the key index_in_memory gives the num_tree for an int32, taken as the
\* value of the sort index
sort_value_uint32(type, v) == as_uint32(to_int(v))

\* index_in_memory, for a single numeric field: the value put in sort_index
sort_value_of(type, v) ==
    IF is_integer(type) THEN to_int(v)
    ELSE IF is_float(type) THEN float_to_in64_t(to_float(v))
    ELSE IF v[2] THEN I64(1) ELSE I64(0)

\* Index::index_string_field and Index::index_string_array_field: the ART
\* after the postings of the texts of a field are inserted
index_texts(type, tree, seq_id, score, texts) ==
    IF is_array(type)
    THEN LET tokens == UNION { TokensOf(texts[i]) : i \in 1..Len(texts) }
         IN  insert_doc(score, tree, seq_id,
                        [t \in tokens |-> string_array_field_offsets(texts, t)],
                        tokens)
    ELSE insert_doc(score, tree, seq_id,
                    [t \in TokensOf(texts[1]) |->
                        string_field_offsets(texts[1], t)],
                    TokensOf(texts[1]))

\* Index::index_in_memory up to its return: the facet entry is emplaced and
\* the loop over search_schema has run for the fields visited
index_fields(ix, document, seq_id, is_update, visited) ==
    LET points ==
            IF is_update /\ count(document, default_sorting_field) = 0
            THEN ix.sort_index[default_sorting_field][seq_id]
            ELSE get_points_from_doc(document)
        has(f) == f \in DOMAIN document \cap visited
        type(f) == search_schema[f].type
        facets == IF seq_id \in DOMAIN ix.facet_index_v2
                  THEN ix.facet_index_v2[seq_id]
                  ELSE [f \in FacetFields |-> << >>]
        owner(t) == CHOOSE f \in Fields : t = f \/ t = faceted_name(f)
    IN  [search_index |->
            [t \in DOMAIN ix.search_index |->
                IF has(owner(t))
                THEN index_texts(type(owner(t)), ix.search_index[t], seq_id,
                                 points,
                                 field_texts(type(owner(t)), document[owner(t)]))
                ELSE ix.search_index[t]],
         numerical_index |->
            [f \in DOMAIN ix.numerical_index |->
                IF has(f)
                THEN ix.numerical_index[f] \cup
                        { << k, seq_id >> : k \in insert_keys(type(f), document[f]) }
                ELSE ix.numerical_index[f]],
         sort_index |->
            [f \in DOMAIN ix.sort_index |->
                IF has(f) /\ seq_id \notin DOMAIN ix.sort_index[f]
                THEN Put(ix.sort_index[f], seq_id,
                         sort_value_of(type(f), document[f]))
                ELSE ix.sort_index[f]],
         facet_index_v2 |->
            Put(ix.facet_index_v2, seq_id,
                [f \in FacetFields |->
                    IF ~has(f) THEN facets[f]
                    ELSE facets[f] \o
                            facet_hashes(type(f), field_texts(type(f), document[f]))]),
         num_documents |-> ix.num_documents]

\* Index::index_in_memory: the loop over all the fields of search_schema,
\* then the document is counted
index_in_memory(ix, document, seq_id, is_update) ==
    [index_fields(ix, document, seq_id, is_update, Fields)
        EXCEPT !.num_documents = @ + 1]

\* Collection::get_doc_changes: the new document is the old one with the
\* fields of the update written over it; del_doc holds the old values of
\* the fields the update has
get_doc_changes(document, old_doc) ==
    [new_doc |-> Merge(old_doc, document),
     del_doc |-> [f \in DOMAIN old_doc \cap DOMAIN document |-> old_doc[f]]]

\* index_record: a record of a batch, as the collection hands it over
index_record(seq_id, doc, operation, is_update, old_doc) ==
    [seq_id |-> seq_id, doc |-> doc, old_doc |-> old_doc,
     del_doc |-> IF is_update THEN get_doc_changes(doc, old_doc).del_doc
                 ELSE EmptyDoc,
     operation |-> operation, is_update |-> is_update,
     indexed |-> Ok(FALSE)]

\* the Option index_in_memory returns
index_mem_op == Ok(201)

\* Index::batch_memory_index, for one record of the batch: the index and the
\* record after it, whether it counts as indexed, and whether a conversion
\* threw. search_schema is an unordered_map: before holds the fields its
\* iteration visits before the field whose conversion throws
batch_memory_index_rec(ix, index_rec, before) ==
    LET skipped == [ix |-> ix, rec |-> index_rec, num_indexed |-> 0,
                    thrown |-> FALSE]
        index_failure(op) ==
            [index_rec EXCEPT !.indexed = Error(op.code, op.error)]
        \* after index_in_memory returned
        returned(scrubbed, indexed) ==
            IF ~index_mem_op.ok
            THEN [skipped EXCEPT
                    !.ix = index_in_memory(indexed, scrubbed.del_doc,
                                           index_rec.seq_id, TRUE),
                    !.rec = index_failure(index_mem_op)]
            ELSE [ix |-> indexed,
                  rec |-> \* index_success
                          [index_rec EXCEPT !.indexed = Ok(TRUE)],
                  num_indexed |-> IF index_rec.is_update THEN 0 ELSE 1,
                  thrown |-> FALSE]
        \* index_in_memory, after the remove of del_doc
        index(scrubbed, removed) ==
            IF throws(index_rec.doc)
            THEN \* index_in_memory throws in its loop
                 [skipped EXCEPT
                    !.ix = index_fields(removed, scrubbed.doc, index_rec.seq_id,
                                        index_rec.is_update,
                                        { f \in before :
                                             ~conversion_throws(index_rec.doc, f) }),
                    !.thrown = TRUE]
            ELSE returned(scrubbed,
                          index_in_memory(removed, scrubbed.doc,
                                          index_rec.seq_id, index_rec.is_update))
        \* the remove of del_doc, after scrub_reindex_doc
        reindex(scrubbed) ==
            index(scrubbed,
                  IF index_rec.is_update
                  THEN remove(ix, index_rec.seq_id, scrubbed.del_doc)
                  ELSE ix)
        validated(validation_op) ==
            IF ~validation_op.ok
            THEN [skipped EXCEPT !.rec = index_failure(validation_op)]
            ELSE IF /\ index_rec.is_update
                    /\ \E f \in DOMAIN index_rec.del_doc \cap Fields :
                          conversion_throws(index_rec.doc, f)
            THEN \* scrub_reindex_doc throws: nothing was removed or indexed
                 [skipped EXCEPT !.thrown = TRUE]
            ELSE reindex(IF index_rec.is_update
                         THEN scrub_reindex_doc(index_rec.doc, index_rec.del_doc,
                                                index_rec.old_doc)
                         ELSE [doc |-> index_rec.doc,
                               del_doc |-> index_rec.del_doc])
    IN  IF ~index_rec.indexed.ok
        THEN \* invalidated upstream
             skipped
        ELSE IF index_rec.operation = "DELETE" THEN skipped
        ELSE validated(validate_index_in_memory(index_rec.doc,
                                                index_rec.is_update))

\* Index::batch_memory_index: the records one after the other; an exception
\* leaves the loop
batch_memory_index(ix, records, before) ==
    LET after(done, r) ==
            [ix |-> r.ix,
             iter_batch |-> Append(done.iter_batch, r.rec),
             num_indexed |-> done.num_indexed + r.num_indexed,
             thrown |-> r.thrown]
        upto[n \in 0..Len(records)] ==
            IF n = 0
            THEN [ix |-> ix, iter_batch |-> << >>, num_indexed |-> 0,
                  thrown |-> FALSE]
            ELSE IF upto[n - 1].thrown
            THEN [upto[n - 1] EXCEPT !.iter_batch = Append(@, records[n])]
            ELSE after(upto[n - 1],
                       batch_memory_index_rec(upto[n - 1].ix, records[n],
                                              before))
    IN  upto[Len(records)]

\* the sets of fields the iteration of search_schema can visit before the
\* first field of the document whose conversion throws
Befores(document, is_update) ==
    IF validate_index_in_memory(document, is_update).ok /\ throws(document)
    THEN SUBSET { f \in Fields : ~conversion_throws(document, f) }
    ELSE {Fields}

\* the index after the operation
SetIndex(ix) ==
    /\ search_index' = ix.search_index
    /\ numerical_index' = ix.numerical_index
    /\ sort_index' = ix.sort_index
    /\ facet_index_v2' = ix.facet_index_v2
    /\ num_documents' = ix.num_documents
    /\ UNCHANGED search_schema

indexIdle ==
    UNCHANGED << replVars, nodesVars, workerVars, search_args, filter_ids,
                 topster, fuzzy_calls, score_calls, field_runs,
                 facet_results >>

\* what is kept of a record after the batch
Outcome(index_rec) ==
    [seq_id |-> index_rec.seq_id, operation |-> index_rec.operation,
     is_update |-> index_rec.is_update, indexed |-> index_rec.indexed]

\* Index::batch_memory_index for the record of a new document: the
\* collection gives it the next sequence id
add(document) ==
    /\ ~thrown
    /\ next_seq_id < MaxDocs
    /\ num_documents < MaxIndexed
    /\ next_seq_id' = next_seq_id + 1
    /\ \E before \in Befores(document, FALSE) :
       LET seq_id == next_seq_id
           done(out, index_rec) ==
               /\ SetIndex(out.ix)
               /\ docs' = IF index_rec.indexed.value = TRUE
                          THEN Put(docs, seq_id, document)
                          ELSE docs
               /\ last_op' = [op |-> "add", seq_id |-> seq_id,
                              code |-> index_rec.indexed.code,
                              error |-> index_rec.indexed.error]
               /\ iter_batch' = << Outcome(index_rec) >>
               /\ thrown' = out.thrown
           indexed(out) == done(out, out.iter_batch[1])
       IN  indexed(batch_memory_index(
                       TheIndex,
                       << index_record(seq_id, document, "CREATE", FALSE,
                                       EmptyDoc) >>,
                       before))
    /\ indexIdle

\* Index::batch_memory_index for the record of an update of the document
\* with seq_id: scrub_reindex_doc, remove of del_doc, index_in_memory
update(seq_id, document) ==
    /\ ~thrown
    /\ seq_id \in DOMAIN docs
    /\ num_documents < MaxIndexed
    /\ \E before \in Befores(document, TRUE) :
       LET old_doc == docs[seq_id]
           done(out, index_rec) ==
               /\ SetIndex(out.ix)
               /\ docs' = IF index_rec.indexed.value = TRUE
                          THEN Put(docs, seq_id,
                                   get_doc_changes(document, old_doc).new_doc)
                          ELSE docs
               /\ last_op' = [op |-> "update", seq_id |-> seq_id,
                              code |-> index_rec.indexed.code,
                              error |-> index_rec.indexed.error]
               /\ iter_batch' = << Outcome(index_rec) >>
               /\ thrown' = out.thrown
           indexed(out) == done(out, out.iter_batch[1])
       IN  indexed(batch_memory_index(
                       TheIndex,
                       << index_record(seq_id, document, "UPDATE", TRUE,
                                       old_doc) >>,
                       before))
    /\ UNCHANGED next_seq_id
    /\ indexIdle

\* the collection removes a document: Index::remove with the stored document
remove_document(seq_id) ==
    /\ ~thrown
    /\ seq_id \in DOMAIN docs
    /\ SetIndex(remove(TheIndex, seq_id, docs[seq_id]))
    /\ docs' = Erase(docs, seq_id)
    /\ last_op' = [op |-> "remove", seq_id |-> seq_id, code |-> 200,
                   error |-> ""]
    /\ UNCHANGED << next_seq_id, iter_batch, thrown >>
    /\ indexIdle

(***************************************************************************)
(* The replicated write path: client writes, forwarding, and applying.     *)
(***************************************************************************)
Init == ReplInit /\ WorkerInit /\ IndexInit

Next ==
    \/ BecomeLeader
    \/ LoseLeader
    \/ LearnLeader
    \/ \E body \in ReplicatedBodies : ReplicateEntry(body)
    \/ Commit
    \/ Shutdown
    \/ \E fail \in {"none", "parse", "rm", "node_init"} \cup InitDbFails :
          start(fail)
    \/ \E r \in Requests, inp \in WriteInputs, proceed_req \in BOOLEAN :
          write(r, inp, proceed_req)
    \/ \E t \in fwd : forward(t)
    \/ \E t \in fwd, status \in LeaderStatuses, dies \in BOOLEAN :
          forward_import_done(t, status, dies)
    \/ on_apply_begin
    \/ on_apply
    \/ on_apply_resume
    \/ raft_write_send_response

Spec == Init /\ [][Next]_vars

(***************************************************************************)
(* Snapshots: the entries of the log come from the leader or were appended *)
(* while this node led; snapshots are saved and loaded between them.       *)
(***************************************************************************)
NextSnapshot ==
    \/ BecomeLeader
    \/ LoseLeader
    \/ LearnLeader
    \/ \E body \in ReplicatedBodies : ReplicateEntry(body)
    \/ Commit
    \/ \E fail \in {"none", "parse", "rm", "node_init"} \cup InitDbFails :
          start(fail)
    \/ on_apply_begin
    \/ on_apply
    \/ on_apply_resume
    \/ raft_write_send_response
    \/ snapshot_timer
    \/ do_snapshot
    \/ \E fail \in InitDbFails : snapshot_skipped(fail)
    \/ \E outcome \in {"ok", "checkpoint", "create"}, dies \in BOOLEAN :
          on_snapshot_save(outcome, dies)
    \/ \E add_ok \in BOOLEAN, fail \in InitDbFails : save_snapshot(add_ok, fail)
    \/ \E k \in 0..MaxLog, fail \in LoadFails, left \in SUBSET LogIndexes :
          on_snapshot_load(k, fail, left)

SpecSnapshot == Init /\ [][NextSnapshot]_vars

(***************************************************************************)
(* Properties of the replicated write path.                                *)
(***************************************************************************)
\* the indexes of the write entries of the log before index k
WritesBefore(k) == { i \in 1..(k - 1) : i <= Len(log) /\ log[i].kind = "write" }

AppliedSet == { applied[i] : i \in 1..Len(applied) }

\* C1: committed writes are applied in log order, one at a time: the entries
\* applied so far are in ascending order of their log index, with no write
\* entry skipped, and an entry is dispatched to the http thread only when
\* every write entry before it has been applied and its completion signalled:
\* at most one dispatched write is in flight, it is the entry after
\* last_applied, and on_apply is waiting on it.
C1_AppliedInLogOrder ==
    /\ \A i \in 1..Len(applied) :
          /\ applied[i] <= committed
          /\ log[applied[i]].kind = "write"
          /\ WritesBefore(applied[i]) \subseteq AppliedSet
          /\ \A j \in 1..Len(applied) : i < j => applied[i] < applied[j]
    /\ \A i \in 1..Len(msgs) :
          msgs[i].route = "write" =>
             /\ applyPc = "await" /\ ~await_notified
             /\ msgs[i].idx = last_applied + 1
             /\ msgs[i].idx \notin AppliedSet
             /\ WritesBefore(msgs[i].idx) \subseteq AppliedSet
             /\ \A j \in 1..Len(msgs) : j # i => msgs[j].route # "write"

\* two writes were applied, one after the other
C1_Witness ==
    /\ Len(applied) >= 2
    /\ last_applied >= 2

\* C2: on the leader write() only appends the request to the log: a step
\* that appends an entry applies nothing, and a step that applies a write to
\* the Index and the store applies the committed entry that on_apply has
\* dispatched and is waiting for (never from write(): the log is unchanged)
C2_AppliedOnlyFromOnApply ==
    [][ /\ log' # log => /\ store' = store
                         /\ collections' = collections
                         /\ applied' = applied
        /\ applied' # applied =>
              /\ log' = log
              /\ applyPc = "await"
              /\ applied' = Append(applied, last_applied + 1)
              /\ last_applied + 1 <= committed
              /\ store' = run_write(store, log[last_applied + 1].method,
                                     last_applied + 1) ]_vars

\* a write appended by write() on the leader was later applied
C2_Witness ==
    \E i \in 1..Len(applied) : log[applied[i]].done /\ log[applied[i]].req \in Requests

C4_AlwaysRejected ==
    [][ \A r \in Requests, inp \in WriteInputs, proceed_req \in BOOLEAN :
          (write(r, inp, proceed_req) /\ node /\ ~is_leader
                                      /\ leader_id = NoLeader) =>
             /\ res'[r].status = 500
             /\ res'[r].body = << "Could not find a leader." >>
             /\ fwd' = fwd
             /\ log' = log ]_vars

\* C4: a write that reaches a non-leader that knows no leader is neither
\* forwarded nor appended to the log. It is answered 500 'Could not find a
\* leader.' unless it is a further chunk of a body already being streamed to
\* the former leader: then the response is left as it is and only
\* request->await is notified.
C4_NoLeader ==
    [][ \A r \in Requests, inp \in WriteInputs, proceed_req \in BOOLEAN :
          (write(r, inp, proceed_req) /\ node /\ ~is_leader
                                      /\ leader_id = NoLeader) =>
             /\ fwd' = fwd
             /\ log' = log
             /\ IF proceed_req /\ res[r].proxied_stream
                THEN /\ res' = res
                     /\ msgs' = msgs
                     /\ rq'[r].notified
                ELSE /\ res'[r].status = 500
                     /\ res'[r].body = << "Could not find a leader." >>
                     /\ msgs' = Append(msgs, HandledMsg(r)) ]_vars

\* with no leader known, a chunk of a request whose body was being streamed
\* to the former leader was let go with a notify and no response
C4_Witness ==
    /\ leader_id = NoLeader /\ node
    /\ \E r \in Requests :
          /\ res[r].proxied_stream /\ rq[r].notified /\ res[r].status = 0
          /\ \A i \in 1..Len(msgs) : msgs[i].req # r
          /\ \A t \in fwd : t.req # r /\ t.leader_addr # PeerAddr(Self)

C6_SnapshotLoad ==
    [][ \A k \in 0..MaxLog, fail \in LoadFails, left \in SUBSET LogIndexes :
          on_snapshot_load(k, fail, left) =>
             /\ last_load'.ret = 0 =>
                   /\ store' = SnapshotContent(k)
                   /\ collections' = store'
                   /\ db_open'
                   /\ last_load'.loaded
             /\ fail \in {"rm", "copy"} =>
                   /\ last_load'.ret = -1
                   /\ ~last_load'.loaded
                   /\ collections' = collections
                   /\ ~db_open' ]_vars

\* a snapshot was loaded over a store that held a document the snapshot
\* lacks: the entry that drops it came with the snapshot
C6_Witness ==
    /\ last_load.ran /\ last_load.ret = 0
    /\ \E i \in AppliedSet : i \notin store /\ log[i].method # "DELETE"
    /\ \A i \in AppliedSet : log[i].method # "DELETE"

(***************************************************************************)
(* The hand-off between the main thread and the worker of an Index.        *)
(***************************************************************************)
NextWorker ==
    \/ run_search_lock
    \/ run_search_wait
    \/ run_search_wake
    \/ run_search_check_terminate
    \/ run_search_search
    \/ run_search_handback
    \/ send_search_lock
    \/ \E q \in SearchIds : send_search(q)
    \/ await_processed_lock
    \/ await_processed
    \/ await_processed_wake
    \/ tear_down_lock
    \/ tear_down

SpecWorker == Init /\ [][NextWorker]_vars

\* the worker is a thread of its own: the scheduler lets it run whenever it
\* can take a step, and a notify wakes it when it is blocked
SpecWorkerFair == SpecWorker /\ WF_vars(run_search)

\* C7: the hand-off executes each request exactly once: the worker searches
\* only with the lock owned, after the main thread set ready, a request it
\* has not run before; no request is run twice; and when the main thread
\* gets control back, every request it has sent was run once.
C7_ExactlyOnce ==
    /\ \A q \in SearchIds : executed[q] <= 1
    /\ workerPc = "search" =>
          /\ ready /\ ~processed
          /\ m = "worker"
          /\ mainPc \in {"sent", "blocked"}
          /\ search_params \in SearchIds
          /\ executed[search_params] = 0
    /\ workerPc = "handback" => ready /\ m = "worker"
    /\ mainPc \in {"idle", "sending", "tearing", "joining"} =>
          \A q \in SearchIds : executed[q] = IF q <= search_params THEN 1 ELSE 0
    /\ \A q \in SearchIds : q > search_params => executed[q] = 0

\* the main thread got control back after its second search
C7_Witness ==
    /\ mainPc = "idle"
    /\ search_params = 2
    /\ executed[1] = 1 /\ executed[2] = 1
    /\ processed /\ ~ready

NextIndex ==
    \/ \E document \in Documents : add(document)
    \/ \E seq_id \in SeqIds, document \in Documents : update(seq_id, document)
    \/ \E seq_id \in SeqIds : remove_document(seq_id)

SpecIndex == Init /\ [][NextIndex]_vars

\* the offsets the leaf of the token holds for seq_id in the ART of field f
Posting(f, token, seq_id) ==
    IF token \notin DOMAIN search_index[f] THEN << >>
    ELSE LET leaf == search_index[f][token]
             at == indexOf(leaf.ids, seq_id)
         IN  IF at = Len(leaf.ids) THEN << >>
             ELSE SubSeq(leaf.offsets, leaf.offset_index[at + 1] + 1,
                         IF at = Len(leaf.ids) - 1 THEN Len(leaf.offsets)
                         ELSE leaf.offset_index[at + 2])

\* the offsets of the token in the current value of field f of seq_id
CurrentOffsets(f, token, seq_id) ==
    IF seq_id \notin DOMAIN docs THEN << >>
    ELSE IF count(docs[seq_id], f) = 0 THEN << >>
    ELSE LET type == search_schema[f].type
             texts == field_texts(type, docs[seq_id][f])
         IN  IF is_array(type) THEN string_array_field_offsets(texts, token)
             ELSE string_field_offsets(texts[1], token)

\* C9 as stated: the postings mirror the live documents: the leaf of token t
\* in the ART of string field f holds for seq_id s exactly the positions at
\* which the current value of f of the live document s has t, and nothing
\* for a document that is not live or does not have t
C9_PostingsMirrorDocuments ==
    \A f \in StringFields, token \in Tokens, seq_id \in SeqIds :
       Posting(f, token, seq_id) = CurrentOffsets(f, token, seq_id)

InitTyped ==
    /\ ReplInit
    /\ WorkerInit
    /\ \E schema \in TypedSchemas : NewIndex(schema)

SpecTyped == InitTyped /\ [][NextIndex]_vars


\* the number of array delimiters in the facet entry of seq_id for field f
Delimiters(seq_id, f) ==
    Cardinality({ i \in 1..Len(facet_index_v2[seq_id][f]) :
                     facet_index_v2[seq_id][f][i] = FACET_ARRAY_DELIMETER })

\* C12 as stated: for every live document and every faceted array field it
\* has, the facet entry of the document holds as many delimiters as the
\* array has elements
C12_DelimitersCountElements ==
    \A seq_id \in DOMAIN docs : \A f \in FacetFields \cap DOMAIN docs[seq_id] :
       is_array(search_schema[f].type)
          => /\ seq_id \in DOMAIN facet_index_v2
             /\ Delimiters(seq_id, f) = Len(docs[seq_id][f][2])


\* Index::search_candidates with no filter, exclusion or curation: for each
\* combination of one candidate leaf per query token the ids that all its
\* leaves hold, and all_result_ids, the union over the combinations (fewer
\* than combination_limit here)
search_candidates(f, token_candidates_vec) ==
    LET tree == search_index[f]
        ids(token) == { tree[token].ids[i] : i \in 1..Len(tree[token].ids) }
        combinations ==
            { query_suggestion \in [1..Len(token_candidates_vec) -> DOMAIN tree] :
                 \A i \in 1..Len(token_candidates_vec) :
                    query_suggestion[i] \in token_candidates_vec[i] }
    IN  UNION { { seq_id \in ids(query_suggestion[1]) :
                     \A i \in 1..Len(token_candidates_vec) :
                        seq_id \in ids(query_suggestion[i]) } :
                query_suggestion \in combinations }

\* the candidates a query of one or two tokens can get from art_fuzzy_search
\* in the ART of field f, whatever the typos allowed and the prefix setting:
\* for each token some leaves of the tree
TokenCandidates(f) ==
    LET leaves == SUBSET (DOMAIN search_index[f]) \ {{}}
    IN  { << c >> : c \in leaves } \cup { << c1, c2 >> : c1 \in leaves, c2 \in leaves }

\* C13: a removed document is never a hit: whatever leaves the tokens of a
\* query resolve to in the ART of a string field, the ids search_candidates
\* collects hold no sequence id without a live document
C13_NoHitAfterRemove ==
    \A f \in StringFields : \A token_candidates_vec \in TokenCandidates(f) :
       search_candidates(f, token_candidates_vec) \subseteq DOMAIN docs

\* document 0 was added and removed while document 1 is live: a search for
\* the token both had in the title hits document 1 only
C13_Witness ==
    /\ last_op.op = "remove" /\ last_op.seq_id = 0
    /\ 1 \in DOMAIN docs
    /\ "a" \in DOMAIN search_index["title"]
    /\ search_candidates("title", << {"a"} >>) = {1}
    /\ "tags" \in DOMAIN docs[1]
    /\ search_candidates("tags", << {"a"}, {"b"} >>) = {1}


\* C14 as stated: after a document was indexed into the empty Index and then
\* removed, every ART has no leaf, and no num_tree, sort index or facet
\* vector holds anything for its seq_id
C14_RemovePurgesEverything ==
    (last_op.op = "remove" /\ num_documents = 1 /\ docs = EmptyMap)
       => /\ \A t \in TreeNames : search_index[t] = EmptyMap
          /\ \A f \in NumericFields : \A entry \in numerical_index[f] :
                entry[2] # last_op.seq_id
          /\ \A f \in SortFields : last_op.seq_id \notin DOMAIN sort_index[f]
          /\ last_op.seq_id \in DOMAIN facet_index_v2
                => \A f \in FacetFields :
                      facet_index_v2[last_op.seq_id][f] = << >>


\* C15 as stated: an upsert of a document whose fields the stored document
\* already has with the same values (the state an earlier upsert of it
\* left) changes nothing of the Index: postings, num_trees, facet entries,
\* sort index and num_documents
C15_UpsertIsIdempotent ==
    [][\A seq_id \in DOMAIN docs, document \in Documents :
          (/\ Merge(docs[seq_id], document) = docs[seq_id]
           /\ update(seq_id, document))
             => TheIndex' = TheIndex]_vars


\* C16 as stated: an update whose record does not end indexed leaves the
\* Index as it was before the record, and the record is marked failed with
\* an error
C16_FailedUpdateKeepsOldDocument ==
    [][\A seq_id \in DOMAIN docs, document \in Documents :
          (/\ update(seq_id, document)
           /\ iter_batch'[1].indexed.value # TRUE)
             => /\ TheIndex' = TheIndex
                /\ ~iter_batch'[1].indexed.ok
                /\ iter_batch'[1].indexed.error # ""]_vars


(***************************************************************************)
(* The Index of a collection given batches of records.                     *)
(***************************************************************************)
\* the documents of the records of a batch: with the string array of the
\* schema or with a string in its place, with every field or with one left
\* out
BatchDocuments ==
    { d \in TypedDocuments :
         /\ "points" \in DOMAIN d => json_type(d["points"]) = "integer"
         /\ "value" \in DOMAIN d =>
               \/ json_type(d["value"]) = "string"
               \/ /\ json_type(d["value"]) = "array"
                  /\ Len(d["value"][2]) > 0
                  /\ json_type(d["value"][2][1]) = "string" }

\* a batch: for each record the document, the sequence id of the live
\* document it updates (-1 for a new document), and whether the collection
\* has invalidated the record before the Index sees it
Batches ==
    LET items == [doc : BatchDocuments, seq_id : SeqIds \cup {-1},
                  invalidated : BOOLEAN]
    IN  UNION { [1..n -> items] : n \in 1..MaxBatch }

\* the index_records the collection makes of a batch: a new document gets
\* the next sequence id
Records(batch) ==
    [k \in 1..Len(batch) |->
        LET created == Cardinality({ j \in 1..(k - 1) : batch[j].seq_id = -1 })
            index_rec ==
                IF batch[k].seq_id = -1
                THEN index_record(next_seq_id + created, batch[k].doc, "CREATE",
                                  FALSE, EmptyDoc)
                ELSE index_record(batch[k].seq_id, batch[k].doc, "UPDATE", TRUE,
                                  docs[batch[k].seq_id])
        IN  IF batch[k].invalidated
            THEN [index_rec EXCEPT !.indexed = Error(400, "Bad JSON.")]
            ELSE index_rec]

\* the stored documents after the records of a batch: those of the records
\* that were indexed
stored_after(records) ==
    LET upto[n \in 0..Len(records)] ==
            IF n = 0 THEN docs
            ELSE IF records[n].indexed.value # TRUE THEN upto[n - 1]
            ELSE Put(upto[n - 1], records[n].seq_id,
                     IF records[n].is_update
                     THEN get_doc_changes(records[n].doc, records[n].old_doc).new_doc
                     ELSE records[n].doc)
    IN  upto[Len(records)]

\* Index::batch_memory_index for the records of a batch that has at most
\* one record for a document
batch_index(batch) ==
    /\ ~thrown
    /\ num_documents < MaxIndexed
    /\ \A k \in 1..Len(batch) :
          /\ batch[k].seq_id # -1 => batch[k].seq_id \in DOMAIN docs
          /\ \A j \in 1..(k - 1) :
                batch[k].seq_id # -1 => batch[j].seq_id # batch[k].seq_id
    /\ LET created == Cardinality({ k \in 1..Len(batch) : batch[k].seq_id = -1 })
       IN  /\ next_seq_id + created <= MaxDocs
           /\ next_seq_id' = next_seq_id + created
    /\ \E before \in UNION { Befores(batch[k].doc, batch[k].seq_id # -1) :
                             k \in 1..Len(batch) } :
       LET done(out) ==
               /\ SetIndex(out.ix)
               /\ docs' = stored_after(out.iter_batch)
               /\ iter_batch' = [k \in 1..Len(batch) |->
                                    Outcome(out.iter_batch[k])]
               /\ thrown' = out.thrown
       IN  done(batch_memory_index(TheIndex, Records(batch), before))
    /\ last_op' = [op |-> "batch", seq_id |-> 0, code |-> 200, error |-> ""]
    /\ indexIdle

InitBatch ==
    /\ ReplInit
    /\ WorkerInit
    /\ \E schema \in { s \in TypedSchemas : s["value"].type = "string[]" } :
          NewIndex(schema)

NextBatch == \E batch \in Batches : batch_index(batch)

SpecBatch == InitBatch /\ [][NextBatch]_vars


\* C17 as stated: after a batch a record that was invalidated upstream is as
\* it came, every other record is marked indexed or failed, a record whose
\* document fails validation is marked failed with the code and message of
\* validate_index_in_memory, and indexing the batch up to and including
\* such a record gives the same Index as indexing it up to the record before
C17_BatchReportsEveryRecord ==
    [][\A batch \in Batches :
          batch_index(batch) =>
             \A k \in 1..Len(batch) :
                LET validation_op ==
                        validate_index_in_memory(batch[k].doc,
                                                 batch[k].seq_id # -1)
                    prefix(n) ==
                        batch_memory_index(TheIndex,
                                           SubSeq(Records(batch), 1, n), {})
                IN  IF batch[k].invalidated
                    THEN iter_batch'[k].indexed = Error(400, "Bad JSON.")
                    ELSE /\ \/ iter_batch'[k].indexed = Ok(TRUE)
                            \/ ~iter_batch'[k].indexed.ok
                         /\ ~validation_op.ok =>
                               /\ iter_batch'[k].indexed = validation_op
                               /\ ~prefix(k - 1).thrown =>
                                     prefix(k).ix = prefix(k - 1).ix]_vars


\* C18: in every state of the collection, the record of a create of a
\* document that lacks the default sorting field or a field the schema does
\* not declare optional is marked failed with code 400 and the Index is left
\* as it is; the record of a create that lacks optional fields only, and of
\* an update that lacks any fields, is indexed when the values the document
\* has are of the declared types
C18_RequiredFieldsValidated ==
    \A document \in Documents :
       LET created ==
               batch_memory_index(
                   TheIndex,
                   << index_record(next_seq_id, document, "CREATE", FALSE,
                                   EmptyDoc) >>,
                   Fields)
           updated(seq_id) ==
               batch_memory_index(
                   TheIndex,
                   << index_record(seq_id, document, "UPDATE", TRUE,
                                   docs[seq_id]) >>,
                   Fields)
       IN  /\ IF \E f \in Fields :
                    /\ f = default_sorting_field \/ ~search_schema[f].optional
                    /\ count(document, f) = 0
              THEN /\ ~created.iter_batch[1].indexed.ok
                   /\ created.iter_batch[1].indexed.code = 400
                   /\ created.ix = TheIndex
              ELSE created.iter_batch[1].indexed = Ok(TRUE)
           /\ \A seq_id \in DOMAIN docs :
                 updated(seq_id).iter_batch[1].indexed = Ok(TRUE)

\* document 0 is live and the create of a document without a title was
\* rejected: the Index holds document 0 only
C18_Witness ==
    /\ last_op.op = "add" /\ last_op.seq_id = 1 /\ last_op.code = 400
    /\ last_op.error
          = "has been declared in the schema, but is not found in the document."
    /\ DOMAIN docs = {0}
    /\ "tags" \notin DOMAIN docs[0]
    /\ num_documents = 1


\* the JSON types a value of a field of the type may have: an integer is
\* also a float
declared_json_types(type) ==
    IF is_string(type) THEN {"string"}
    ELSE IF is_integer(type) THEN {"integer"}
    ELSE IF is_float(type) THEN {"integer", "float"}
    ELSE {"boolean"}

\* the value has the declared type: for an array field it is an array and
\* every element has the element type
has_declared_type(type, v) ==
    IF is_array(type)
    THEN /\ json_type(v) = "array"
         /\ \A i \in 1..Len(v[2]) :
               json_type(v[2][i]) \in declared_json_types(type)
    ELSE json_type(v) \in declared_json_types(type)

\* C19 as stated: a document is accepted only if every schema field it has
\* holds a value of the declared type: every live document is of this kind
C19_AcceptedDocumentsAreTyped ==
    \A seq_id \in DOMAIN docs : \A f \in Fields \cap DOMAIN docs[seq_id] :
       has_declared_type(search_schema[f].type, docs[seq_id][f])


\* C20 as stated: a document with an int32 value outside -2^31 .. 2^31 - 1,
\* in a single field or in an element of an array, is never accepted: every
\* integer of an int32 field of a live document is in the range
C20_Int32ValuesInRange ==
    \A seq_id \in DOMAIN docs : \A f \in Fields \cap DOMAIN docs[seq_id] :
       is_int32(search_schema[f].type) =>
          LET elems == Elements(search_schema[f].type, docs[seq_id][f])
          IN  \A i \in 1..Len(elems) :
                 json_type(elems[i]) = "integer"
                    => /\ ~less(elems[i][2], I64(0 - INT32_MAX - 1))
                       /\ ~less(I64(INT32_MAX), elems[i][2])

(***************************************************************************)
(* Index::search: the lookups in the ART.                                  *)
(***************************************************************************)
\* the words of the documents and of the queries of the search collection
Words == {"a", "ab", "abc", "abd", "zz"}

\* the characters of a token; a token that is no word counts as one
Letters(token) ==
    CASE token = "ab" -> << "a", "b" >>
      [] token = "abc" -> << "a", "b", "c" >>
      [] token = "abd" -> << "a", "b", "d" >>
      [] token = "zz" -> << "z", "z" >>
      [] OTHER -> << token >>

\* std::string::length
length(token) == Len(Letters(token))

\* the edit distance (insert, delete, substitute) of two character sequences
RECURSIVE levenshtein(_, _)
levenshtein(s, t) ==
    IF s = << >> THEN Len(t)
    ELSE IF t = << >> THEN Len(s)
    ELSE LET sub == levenshtein(Tail(s), Tail(t))
                      + (IF Head(s) = Head(t) THEN 0 ELSE 1)
             del == levenshtein(Tail(s), t) + 1
             ins == levenshtein(s, Tail(t)) + 1
             least(a, b) == IF a <= b THEN a ELSE b
         IN  least(sub, least(del, ins))

\* the distance art_fuzzy_search measures between a token and a key: against
\* the whole key, or in a prefix search against the prefix of the key that
\* is as long as the token
key_distance(token, key, prefix) ==
    LET k == Letters(key)
        n == length(token)
    IN  levenshtein(Letters(token),
                    IF prefix /\ Len(k) > n THEN SubSeq(k, 1, n) ELSE k)

\* art_search: the leaf of the key, named by the key, or none
art_search(tree, key) == IF key \in DOMAIN tree THEN << key >> ELSE << >>

\* leaves in the order of token_ordering: by the length of ids (FREQUENCY)
\* or by max_score (MAX_SCORE), the greater first
ordered_leaves(tree, keys, token_order) ==
    LET before(a, b) == IF token_order = "FREQUENCY"
                        THEN Len(tree[a].ids) >= Len(tree[b].ids)
                        ELSE ~less(tree[a].max_score, tree[b].max_score)
        n == Cardinality(keys)
    IN  CHOOSE seq \in [1..n -> keys] :
           /\ \A i, j \in 1..n : i < j => seq[i] # seq[j]
           /\ \A i \in 1..(n - 1) : before(seq[i], seq[i + 1])

\* art_fuzzy_search: up to max_candidates leaves whose keys are at a
\* distance of min_cost to max_cost from the token
art_fuzzy_search(tree, token, min_cost, max_cost, max_candidates, token_order, prefix) ==
    LET keys == { k \in DOMAIN tree :
                     LET d == key_distance(token, k, prefix)
                     IN  min_cost <= d /\ d <= max_cost }
        leaves == ordered_leaves(tree, keys, token_order)
    IN  IF Len(leaves) <= max_candidates THEN leaves
        ELSE SubSeq(leaves, 1, max_candidates)


(***************************************************************************)
(* Index::search: the collection searched, and the arguments of a search.  *)
(***************************************************************************)
\* the schema of the search collection: title is a string, brand an optional
\* faceted string, tags an optional faceted string array, points the int32
\* default sorting field
SearchSchema ==
    [title |-> Field("string", FALSE, FALSE),
     brand |-> Field("string", TRUE, TRUE),
     tags |-> Field("string[]", TRUE, TRUE),
     points |-> Field("int32", FALSE, FALSE)]

\* a document of the search collection
SearchDocument(title, brand, tags, points) ==
    Merge([title |-> << "string", title >>, points |-> << "integer", I64(points) >>],
          Merge(IF brand = << >> THEN EmptyDoc
                ELSE [brand |-> << "string", brand >>],
                IF tags = << >> THEN EmptyDoc
                ELSE [tags |-> << "array",
                                  [i \in 1..Len(tags) |-> << "string", tags[i] >>] >>]))

\* the documents the search collection is given
SearchDocuments ==
    { SearchDocument(<< "ab", "abc" >>, << "a", "ab" >>,
                     << << "a" >>, << "ab", "a" >> >>, 1),
      SearchDocument(<< "abd" >>, << "a" >>, << << "a", "ab" >> >>, -1),
      SearchDocument(<< "abc", "abd" >>, << >>, << >>, 1) }

\* a filter: field_name, values, comparators
Filter(field_name, values, comparator) ==
    [field_name |-> field_name, values |-> values,
     comparators |-> [i \in 1..Len(values) |-> comparator]]

(***************************************************************************)
(* Index::do_filtering.                                                    *)
(***************************************************************************)
\* the ids of a set in increasing order, and the ids of a sequence
sorted_ids(S) ==
    CHOOSE seq \in [1..Cardinality(S) -> S] :
       \A i, j \in 1..Cardinality(S) : i < j => seq[i] < seq[j]

ids_in(seq) == { seq[i] : i \in 1..Len(seq) }

\* the ids of the leaf of a token in an ART, none if there is no leaf
leaf_ids(tree, token) ==
    IF token \in DOMAIN tree THEN ids_in(tree[token].ids) ELSE {}

\* num_tree_t::search: the ids whose key stands in the comparison to value
num_tree_search(num_tree, comparator, value) ==
    { kv[2] : kv \in { e \in num_tree :
                CASE comparator = "EQUALS" -> e[1] = value
                  [] comparator = "LESS_THAN" -> less(e[1], value)
                  [] comparator = "LESS_THAN_EQUALS" -> ~less(value, e[1])
                  [] comparator = "GREATER_THAN" -> less(value, e[1])
                  [] comparator = "GREATER_THAN_EQUALS" -> ~less(e[1], value) } }

\* the combined hash of a sequence of token hashes: the product of the
\* factors 1779033703 + 2 * hash * (index + 1), as the set of the pairs of
\* hash and index the factors are made of
combined_hash(hashes) == { << hashes[n], n >> : n \in 1..Len(hashes) }

\* the elements of the facet hashes of an array: the hashes before each
\* FACET_ARRAY_DELIMETER
RECURSIVE facet_elements(_, _)
facet_elements(fvalues, current) ==
    IF fvalues = << >> THEN << >>
    ELSE IF Head(fvalues) = FACET_ARRAY_DELIMETER
         THEN << current >> \o facet_elements(Tail(fvalues), << >>)
         ELSE facet_elements(Tail(fvalues), Append(current, Head(fvalues)))

\* do_filtering, for one value of a filter on a string field: the tokens
\* that have a leaf are the query_suggestion and their ids are intersected;
\* for EQUALS on a facet the facet hashes of each id are then compared
string_filter_ids(ix, a_filter, text) ==
    LET f == a_filter.field_name
        t == ix.search_index[f]
        str_tokens == tokenize(text)
        found == { i \in 1..Len(str_tokens) : art_search(t, str_tokens[i]) # << >> }
        strt_ids ==
            IF found = {} THEN {}
            ELSE { id \in SeqIds : \A i \in found : id \in leaf_ids(t, str_tokens[i]) }
        filter_hash ==
            combined_hash([i \in 1..Len(str_tokens) |->
                              facet_token_hash(search_schema[f].type, str_tokens[i])])
        found_filter(seq_id) ==
            LET fvalues == ix.facet_index_v2[seq_id][f]
                elements == facet_elements(fvalues, << >>)
            IN  IF ~is_array(search_schema[f].type)
                THEN Cardinality(found) = Len(fvalues)
                ELSE \E e \in 1..Len(elements) :
                        combined_hash(elements[e]) = filter_hash
    IN  IF a_filter.comparators[1] = "EQUALS" /\ search_schema[f].facet
        THEN { seq_id \in strt_ids : found_filter(seq_id) }
        ELSE strt_ids

\* do_filtering, for one filter: the ids of its values, or-ed
filter_result_ids(ix, a_filter) ==
    LET f == a_filter.field_name
        type == search_schema[f].type
        value(i) ==
            IF is_int32(type) THEN as_int32(atoll(a_filter.values[i][1]))
            ELSE IF is_int64(type) THEN atoll(a_filter.values[i][1])
            ELSE IF is_float(type)
                 THEN float_to_in64_t(stof(a_filter.values[i][1]))
            ELSE IF a_filter.values[i][1] = "1" THEN I64(1) ELSE I64(0)
    IN  IF is_string(type)
        THEN UNION { string_filter_ids(ix, a_filter, a_filter.values[i]) :
                       i \in 1..Len(a_filter.values) }
        ELSE UNION { num_tree_search(ix.numerical_index[f],
                                     a_filter.comparators[i], value(i)) :
                       i \in 1..Len(a_filter.values) }

\* Index::do_filtering: filters of fields with no index are passed over, the
\* first filter gives filter_ids and each later one is and-ed into it
RECURSIVE do_filtering_rec(_, _, _, _)
do_filtering_rec(ix, filters, i, ids) ==
    IF i > Len(filters) THEN ids
    ELSE IF filters[i].field_name \notin
               DOMAIN ix.search_index \cup DOMAIN ix.numerical_index
         THEN do_filtering_rec(ix, filters, i + 1, ids)
         ELSE do_filtering_rec(ix, filters, i + 1,
                               IF i = 1 THEN filter_result_ids(ix, filters[i])
                               ELSE ids \cap filter_result_ids(ix, filters[i]))

do_filtering(ix, filters) == sorted_ids(do_filtering_rec(ix, filters, 1, {}))


(***************************************************************************)
(* Index::score_results and the Topster. A sort key is an int64_t with all *)
(* its 64 bits: << top, hi, lo >> with top the two highest bits and hi and *)
(* lo the next and the lowest 31 bits.                                     *)
(***************************************************************************)
INT64_MIN == << 2, 0, 0 >>
INT64_MAX == << 1, INT32_MAX, INT32_MAX >>

\* an int64_t of the index, with its 64 bits
int64_bits(x) ==
    IF x[1] >= 0 THEN << 0, x[1], x[2] >>
    ELSE << 3, (x[1] + INT32_MAX) + 1, x[2] >>

\* the order of int64_t on the 64 bits
int64_less(x, y) ==
    LET sx == (x[1] + 2) % 4
        sy == (y[1] + 2) % 4
    IN  \/ sx < sy
        \/ sx = sy /\ x[2] < y[2]
        \/ sx = sy /\ x[2] = y[2] /\ x[3] < y[3]

\* 0 - x in 64 bits, wrapping around
int64_negated(x) ==
    IF x[3] # 0 THEN << 3 - x[1], INT32_MAX - x[2], (INT32_MAX - x[3]) + 1 >>
    ELSE IF x[2] # 0 THEN << 3 - x[1], (INT32_MAX - x[2]) + 1, 0 >>
    ELSE << (4 - x[1]) % 4, 0, 0 >>

\* x + y in 64 bits, wrapping around
int64_sum(x, y) ==
    LET lo == (x[3] - INT32_MAX - 1) + y[3]
        carry_lo == IF lo >= 0 THEN 1 ELSE 0
        hi == ((x[2] - INT32_MAX - 1) + y[2]) + carry_lo
        carry_hi == IF hi >= 0 THEN 1 ELSE 0
    IN  << (x[1] + y[1] + carry_hi) % 4,
           IF hi >= 0 THEN hi ELSE (hi + INT32_MAX) + 1,
           IF lo >= 0 THEN lo ELSE (lo + INT32_MAX) + 1 >>

\* what the negation -scores[i] of score_results can leave in scores[i]: the
\* negated value, and for INT64_MIN, whose negation overflows, whatever the
\* build makes of the overflow
negation_outcomes(x, overflowed) ==
    IF x = INT64_MIN THEN overflowed ELSE int64_negated(x)

\* Match::get_match_score: words_present, then 255 - total_cost, then
\* 100 - distance, then field_id, each in its byte
get_match_score(words_present, total_cost, distance, field_id) ==
    (words_present * Pow2(24)) + ((255 - total_cost) * Pow2(16))
       + ((100 - distance) * Pow2(8)) + field_id

\* the match score score_results gives an id for the leaves of a
\* combination: that of one token for up to one leaf, else that of the
\* leaves, every one of which holds the id
match_score_of(query_suggestion, total_cost, field_id) ==
    IF Len(query_suggestion) <= 1
    THEN get_match_score(1, total_cost, 0, field_id)
    ELSE get_match_score(Len(query_suggestion), total_cost, 0, field_id)

\* score_results: one of the up to three scores of an id, from the value
\* the sort index has for it (0 if it has none) or from its match score
sort_key(value, order, overflowed) ==
    IF order = "ASC" THEN negation_outcomes(value, overflowed) ELSE value

sort_value(sort_field, seq_id, match_score) ==
    IF sort_field.name = "_text_match" THEN << 0, 0, match_score >>
    ELSE IF seq_id \in DOMAIN sort_index[sort_field.name]
         THEN int64_bits(sort_index[sort_field.name][seq_id])
         ELSE << 0, 0, 0 >>

\* score_results: the KV of an id
score_kv(ctx, query_index, field_id, seq_id, match_score) ==
    LET sort_fields == ctx.sort_fields_std
    IN  [field_id |-> field_id, query_index |-> query_index, key |-> seq_id,
         match_score_index |->
            IF \E i \in 1..Len(sort_fields) : sort_fields[i].name = "_text_match"
            THEN (CHOOSE i \in 1..Len(sort_fields) :
                     /\ sort_fields[i].name = "_text_match"
                     /\ \A j \in (i + 1)..Len(sort_fields) :
                           sort_fields[j].name # "_text_match") - 1
            ELSE 0,
         scores |-> [i \in 1..3 |->
                       IF i <= Len(sort_fields)
                       THEN sort_key(sort_value(sort_fields[i], seq_id, match_score),
                                     sort_fields[i].order, ctx.overflowed)
                       ELSE << 0, 0, 0 >>]]

\* KV::is_greater: by scores[0], then scores[1], then scores[2]
is_greater(kv, other) ==
    \/ int64_less(other.scores[1], kv.scores[1])
    \/ /\ other.scores[1] = kv.scores[1]
       /\ \/ int64_less(other.scores[2], kv.scores[2])
          \/ /\ other.scores[2] = kv.scores[2]
             /\ int64_less(other.scores[3], kv.scores[3])

\* Topster::add with every KV kept, whatever its key
topster_add_every(MAX_SIZE, kvs, kv) == Append(kvs, kv)

\* Topster::add: kv_map holds one KV for a key, the greater one; with
\* MAX_SIZE keys in it a KV of a new key takes the place of the least KV if
\* it is greater. The KVs are kept in the order in which their keys came in
topster_add(MAX_SIZE, kvs, kv) ==
    IF \E i \in 1..Len(kvs) : kvs[i].key = kv.key
    THEN [i \in 1..Len(kvs) |->
            IF kvs[i].key = kv.key /\ is_greater(kv, kvs[i]) THEN kv ELSE kvs[i]]
    ELSE IF Len(kvs) < MAX_SIZE THEN Append(kvs, kv)
    ELSE LET least == CHOOSE i \in 1..Len(kvs) :
                         \A j \in 1..Len(kvs) : ~is_greater(kvs[i], kvs[j])
         IN  IF is_greater(kv, kvs[least])
             THEN [i \in 1..Len(kvs) |-> IF i = least THEN kv ELSE kvs[i]]
             ELSE kvs

\* score_results: the KVs of the ids are added to the Topster, in order
RECURSIVE score_results(_, _, _, _, _, _, _)
score_results(ctx, query_index, field_id, total_cost, kvs, query_suggestion, result_ids) ==
    IF result_ids = << >> THEN kvs
    ELSE score_results(ctx, query_index, field_id, total_cost,
                       topster_add(ctx.max_hits, kvs,
                                   score_kv(ctx, query_index, field_id,
                                            Head(result_ids),
                                            match_score_of(query_suggestion,
                                                           total_cost, field_id))),
                       query_suggestion, Tail(result_ids))

(***************************************************************************)
(* Index::search_candidates and Index::search_field. What a search has     *)
(* produced so far is a record: the calls of art_fuzzy_search and of       *)
(* score_results, the KVs of the Topster in use, all_result_ids and the    *)
(* length of searched_queries.                                             *)
(***************************************************************************)
combination_limit == 10
DROP_TOKENS_THRESHOLD == 10
TYPO_TOKENS_THRESHOLD == 100
FIELD_LIMIT_NUM == 100

NoOutput ==
    [fuzzy_calls |-> << >>, score_calls |-> << >>, kvs |-> << >>,
     all_result_ids |-> {}, searched_queries |-> 0, runs |-> << >>]

\* the product of the sizes of the elements of a sequence
RECURSIVE product(_)
product(sizes) == IF sizes = << >> THEN 1 ELSE Head(sizes) * product(Tail(sizes))

\* Index::next_suggestion: the n-th combination of one candidate for each
\* token, the candidate of the first token changing fastest
RECURSIVE next_suggestion(_, _)
next_suggestion(token_candidates_vec, n) ==
    IF token_candidates_vec = << >> THEN << >>
    ELSE LET candidates == Head(token_candidates_vec).candidates
         IN  << candidates[(n % Len(candidates)) + 1] >>
                \o next_suggestion(Tail(token_candidates_vec),
                                   n \div Len(candidates))

RECURSIVE total_cost_of(_)
total_cost_of(token_candidates_vec) ==
    IF token_candidates_vec = << >> THEN 0
    ELSE Head(token_candidates_vec).cost + total_cost_of(Tail(token_candidates_vec))

\* scored_combination with the curated ids left in
scored_combination_with_curated(ctx, call, token_candidates_vec, query_suggestion, result_ids, run) ==
    LET kept == result_ids \ ctx.exclude_token_ids
        filtered == IF ctx.filters # << >> THEN kept \cap ids_in(ctx.filter_ids)
                    ELSE kept
        total_cost == total_cost_of(token_candidates_vec)
    IN  [o |-> [run.o EXCEPT
                  !.all_result_ids = @ \cup filtered,
                  !.score_calls =
                      Append(@, [field |-> call.field, field_id |-> call.field_id,
                                 reruns |-> call.reruns,
                                 query_suggestion |-> query_suggestion,
                                 field_num_results |-> run.field_num_results,
                                 result_ids |-> sorted_ids(filtered)]),
                  !.kvs = score_results(ctx, run.o.searched_queries,
                                        call.field_id, total_cost, @,
                                        query_suggestion, sorted_ids(filtered)),
                  !.searched_queries = @ + 1],
         field_num_results |-> run.field_num_results + Cardinality(filtered)]

\* Index::search_candidates, one turn of its loop for a combination that
\* has ids: the ids of the exclude tokens and the curated ids are taken out,
\* the rest is intersected with filter_ids if there are any, and scored
scored_combination(ctx, call, token_candidates_vec, query_suggestion, result_ids, run) ==
    LET kept == (result_ids \ ctx.exclude_token_ids) \ ctx.curated_ids
        filtered == IF ctx.filters # << >> THEN kept \cap ids_in(ctx.filter_ids)
                    ELSE kept
        total_cost == total_cost_of(token_candidates_vec)
    IN  [o |-> [run.o EXCEPT
                  !.all_result_ids = @ \cup filtered,
                  !.score_calls =
                      Append(@, [field |-> call.field, field_id |-> call.field_id,
                                 reruns |-> call.reruns,
                                 query_suggestion |-> query_suggestion,
                                 field_num_results |-> run.field_num_results,
                                 result_ids |-> sorted_ids(filtered)]),
                  !.kvs = score_results(ctx, run.o.searched_queries,
                                        call.field_id, total_cost, @,
                                        query_suggestion, sorted_ids(filtered)),
                  !.searched_queries = @ + 1],
         field_num_results |-> run.field_num_results + Cardinality(filtered)]

\* get_bounded_typo_cost with no cap for the short tokens
get_bounded_typo_cost_uncapped(max_cost, token_len) == max_cost

\* Index::get_bounded_typo_cost
get_bounded_typo_cost(max_cost, token_len) ==
    IF token_len > 0 /\ max_cost >= token_len /\ (token_len = 1 \/ token_len = 2)
    THEN token_len - 1
    ELSE max_cost

\* search_field: the costs of the n-th combination, the cost of the last
\* token changing fastest
RECURSIVE costs_of(_, _)
costs_of(token_to_costs, n) ==
    IF token_to_costs = << >> THEN << >>
    ELSE LET last == token_to_costs[Len(token_to_costs)]
         IN  costs_of(SubSeq(token_to_costs, 1, Len(token_to_costs) - 1),
                      n \div Len(last))
                \o << last[(n % Len(last)) + 1] >>

\* a sequence without its i-th element
without(seq, i) == SubSeq(seq, 1, i - 1) \o SubSeq(seq, i + 1, Len(seq))

\* what a call of search_field did when it erased a cost: the costs, the
\* search_tokens and the query_tokens before and after it, and how many
\* combinations of costs it had taken by then
restarted(st, erased, token_index, cost) ==
    [erased EXCEPT
       !.o.runs[Len(st.o.runs)].restarts =
           Append(@, [token_index |-> token_index, cost |-> cost,
                      at |-> Len(st.o.runs[Len(st.o.runs)].cost_vectors),
                      token_to_costs |->
                          << st.token_to_costs, erased.token_to_costs >>,
                      search_tokens |->
                          << st.search_tokens, erased.search_tokens >>,
                      query_tokens |->
                          << st.query_tokens, erased.query_tokens >>])]


\* erase_cost that leaves the token without costs in query_tokens
erase_cost_keeps_query_token(st, token_index, cost) ==
    LET left == SelectSeq(st.token_to_costs[token_index], LAMBDA c : c # cost)
        erased == IF left # << >>
                  THEN [st EXCEPT !.token_to_costs[token_index] = left,
                                  !.n = -1]
                  ELSE [st EXCEPT !.token_to_costs = without(@, token_index),
                                  !.search_tokens = without(@, token_index),
                                  !.n = -1]
    IN  restarted(st, erased, token_index, cost)
\* search_field, a token with no leaf at its cost: the cost is erased from
\* the costs of the token, and with no cost left the token is erased from
\* search_tokens and from query_tokens; the combinations start again
erase_cost(st, token_index, cost) ==
    LET left == SelectSeq(st.token_to_costs[token_index], LAMBDA c : c # cost)
        erased == IF left # << >>
                  THEN [st EXCEPT !.token_to_costs[token_index] = left,
                                  !.n = -1]
                  ELSE [st EXCEPT !.token_to_costs = without(@, token_index),
                                  !.search_tokens = without(@, token_index),
                                  !.query_tokens = without(@, token_index),
                                  !.n = -1]
    IN  restarted(st, erased, token_index, cost)

\* search_field, the tokens dropped for the next run: from the right up to
\* the middle of query_tokens, then from the left
truncated_tokens(query_tokens, num_tokens_dropped) ==
    LET mid_index == Len(query_tokens) \div 2
    IN  IF num_tokens_dropped <= mid_index
        THEN SubSeq(query_tokens, 1, Len(query_tokens) - num_tokens_dropped)
        ELSE SubSeq(query_tokens, (num_tokens_dropped - mid_index) + 1,
                    Len(query_tokens))

\* the state search_field starts with. search_field and the call of
\* search_candidates in it are taken a turn of a loop at a time: n counts
\* the combinations of costs, token_index the tokens of one, and
\* combination, from the call of search_candidates to its return, the
\* combinations of candidates
search_field_entry(ctx, call, query_tokens, search_tokens, num_tokens_dropped, o) ==
    LET max_cost == IF ctx.num_typos < 0 \/ ctx.num_typos > 2 THEN 2
                    ELSE ctx.num_typos
    IN  [call |-> call,
         query_tokens |-> query_tokens, search_tokens |-> search_tokens,
         token_to_costs |->
            [i \in 1..Len(search_tokens) |->
                [c \in 1..(get_bounded_typo_cost(max_cost, length(search_tokens[i])) + 1)
                    |-> c - 1]],
         n |-> 0, token_index |-> 1, token_candidates_vec |-> << >>,
         combination |-> -1,
         field_num_results |-> 0, token_cost_cache |-> EmptyMap,
         num_tokens_dropped |-> num_tokens_dropped,
         o |-> [o EXCEPT
                  !.runs = Append(@, [field |-> call.field,
                                      field_id |-> call.field_id,
                                      reruns |-> call.reruns,
                                      query_tokens |-> query_tokens,
                                      search_tokens |-> search_tokens,
                                      drop_tokens_threshold |->
                                          call.drop_tokens_threshold,
                                      cost_vectors |-> << >>,
                                      candidates_calls |-> 0,
                                      restarts |-> << >>,
                                      field_num_results |-> 0,
                                      returned |-> FALSE])],
         returned |-> FALSE]

\* search_field, the label resume_typo_loop: with enough results for one of
\* the thresholds search_field returns, else the next combination of costs
\* is taken
resume_typo_loop(st) ==
    IF \/ st.field_num_results >= st.call.drop_tokens_threshold
       \/ st.field_num_results >= st.call.typo_tokens_threshold
    THEN [st EXCEPT !.returned = TRUE,
                    !.o.runs[Len(st.o.runs)].field_num_results =
                        st.field_num_results,
                    !.o.runs[Len(st.o.runs)].returned = TRUE]
    ELSE [st EXCEPT !.n = @ + 1, !.token_index = 1,
                    !.token_candidates_vec = << >>, !.combination = -1,
                    !.o.runs[Len(st.o.runs)].field_num_results =
                        st.field_num_results]

\* Index::search_candidates, one turn of its loop: the combination is
\* passed over if no id is in all its leaves, else it is scored, and the
\* loop ends when the field has typo_tokens_threshold results
search_candidates_turn(ctx, st) ==
    LET vec == st.token_candidates_vec
        N == product([i \in 1..Len(vec) |-> Len(vec[i].candidates)])
        ids_of(query_suggestion) ==
            { id \in SeqIds :
                \A i \in 1..Len(query_suggestion) :
                   id \in leaf_ids(search_index[st.call.field], query_suggestion[i]) }
        scored(run) ==
            IF run.field_num_results >= st.call.typo_tokens_threshold
            THEN resume_typo_loop(
                     [st EXCEPT !.o = run.o,
                                !.field_num_results = run.field_num_results])
            ELSE [st EXCEPT !.o = run.o,
                            !.field_num_results = run.field_num_results,
                            !.combination = @ + 1]
        combined(query_suggestion, result_ids) ==
            IF result_ids = {} THEN [st EXCEPT !.combination = @ + 1]
            ELSE scored(scored_combination(
                            ctx, st.call, vec, query_suggestion, result_ids,
                            [o |-> st.o,
                             field_num_results |-> st.field_num_results]))
        suggested(query_suggestion) ==
            combined(query_suggestion, ids_of(query_suggestion))
    IN  IF ~(st.combination < N /\ st.combination < combination_limit)
        THEN resume_typo_loop(st)
        ELSE suggested(next_suggestion(vec, st.combination))

\* search_field: the leaves of a token at a cost, from token_cost_cache or
\* from art_fuzzy_search, the last of search_tokens as a prefix if prefix
\* is set
search_field_leaves(ctx, st, cost) ==
    LET token == st.search_tokens[st.token_index]
        prefix_search == ctx.prefix /\ st.token_index = Len(st.search_tokens)
        looked_up(leaves) ==
            [leaves |-> leaves,
             st |-> [st EXCEPT
                       !.token_cost_cache =
                           IF leaves # << >>
                           THEN Put(@, << token, cost >>, leaves) ELSE @,
                       !.o.fuzzy_calls =
                           Append(@, [field |-> st.call.field, token |-> token,
                                      cost |-> cost, prefix |-> prefix_search,
                                      reruns |-> st.call.reruns,
                                      tokens |-> st.call.tokens,
                                      field_num_results |->
                                          st.field_num_results])]]
    IN  IF << token, cost >> \in DOMAIN st.token_cost_cache
        THEN [leaves |-> st.token_cost_cache[<< token, cost >>], st |-> st]
        ELSE looked_up(art_fuzzy_search(search_index[st.call.field], token,
                                        cost, cost,
                                        IF prefix_search THEN 10 ELSE 3,
                                        ctx.token_order, prefix_search))

\* search_field, one turn of the loop over the tokens of a combination of
\* costs: a token with leaves goes into token_candidates_vec, one with none
\* loses the cost; after the last token search_candidates is called
token_turn(ctx, st, costs) ==
    LET found(lookup) ==
            IF lookup.leaves # << >>
            THEN [lookup.st EXCEPT
                    !.token_index = @ + 1,
                    !.token_candidates_vec =
                        Append(@, [token |-> st.search_tokens[st.token_index],
                                   cost |-> costs[st.token_index],
                                   candidates |-> lookup.leaves])]
            ELSE resume_typo_loop(erase_cost(lookup.st, st.token_index,
                                             costs[st.token_index]))
    IN  IF st.token_index > Len(st.search_tokens)
        THEN IF st.token_candidates_vec # << >>
             THEN [st EXCEPT !.combination = 0,
                             !.o.runs[Len(st.o.runs)].candidates_calls = @ + 1]
             ELSE resume_typo_loop(st)
        ELSE found(search_field_leaves(ctx, st, costs[st.token_index]))


\* drop_tokens that does not count the token it drops
drop_tokens_uncounted(ctx, st) ==
    IF st.query_tokens # << >> /\ st.num_tokens_dropped < Len(st.query_tokens)
    THEN search_field_entry(
             ctx,
             [st.call EXCEPT
                !.reruns = @ + 1,
                !.drop_tokens_threshold = DROP_TOKENS_THRESHOLD,
                !.typo_tokens_threshold = TYPO_TOKENS_THRESHOLD],
             st.query_tokens,
             truncated_tokens(st.query_tokens, st.num_tokens_dropped + 1),
             st.num_tokens_dropped, st.o)
    ELSE [st EXCEPT !.returned = TRUE,
                    !.o.runs[Len(st.o.runs)].returned = TRUE]
\* search_field after its loop: while query_tokens has tokens left to
\* drop it calls itself for the truncated tokens, with the thresholds its
\* declaration gives by default
drop_tokens(ctx, st) ==
    LET dropped == st.num_tokens_dropped + 1
    IN  IF st.query_tokens # << >> /\ st.num_tokens_dropped < Len(st.query_tokens)
        THEN search_field_entry(
                 ctx,
                 [st.call EXCEPT
                    !.reruns = @ + 1,
                    !.drop_tokens_threshold = DROP_TOKENS_THRESHOLD,
                    !.typo_tokens_threshold = TYPO_TOKENS_THRESHOLD],
                 st.query_tokens, truncated_tokens(st.query_tokens, dropped),
                 dropped, st.o)
        ELSE [st EXCEPT !.returned = TRUE,
                        !.o.runs[Len(st.o.runs)].returned = TRUE]

\* Index::search_field, one turn
search_field_turn(ctx, st) ==
    LET N == product([i \in 1..Len(st.token_to_costs) |->
                         Len(st.token_to_costs[i])])
    IN  IF st.returned THEN st
        ELSE IF st.combination >= 0 THEN search_candidates_turn(ctx, st)
        ELSE IF st.n < N /\ st.n < combination_limit
             THEN token_turn(ctx,
                             IF st.token_index = 1
                             THEN [st EXCEPT
                                     !.o.runs[Len(st.o.runs)].cost_vectors =
                                         Append(@, costs_of(st.token_to_costs,
                                                            st.n))]
                             ELSE st,
                             costs_of(st.token_to_costs, st.n))
             ELSE drop_tokens(ctx, st)

\* up to 2^k turns of search_field
RECURSIVE search_field_turns(_, _, _)
search_field_turns(ctx, st, k) ==
    IF st.returned THEN st
    ELSE IF k = 0 THEN search_field_turn(ctx, st)
    ELSE search_field_turns(ctx, search_field_turns(ctx, st, k - 1), k - 1)

\* Index::search_field: what the search has produced when it returns
search_field(ctx, call, tokens, o) ==
    search_field_turns(ctx, search_field_entry(ctx, call, tokens, tokens, 0, o),
                       MaxTurns).o

(***************************************************************************)
(* Index::search.                                                          *)
(***************************************************************************)
\* the ids of the leaves of the exclude tokens in the fields searched
exclude_token_ids_of(args) ==
    UNION { leaf_ids(search_index[args.search_fields[i]], args.q_exclude_tokens[t]) :
              i \in 1..Len(args.search_fields),
              t \in 1..Len(args.q_exclude_tokens) }

\* what Index::search works with: its arguments, the filter_ids of
\* do_filtering, the ids of the exclude tokens, the curated ids, and what an
\* overflowing negation of a score gives
search_context(args, overflowed) ==
    [sort_fields_std |-> args.sort_fields_std, overflowed |-> overflowed,
     max_hits |-> args.max_hits, filters |-> args.filters,
     filter_ids |-> do_filtering(TheIndex, args.filters),
     exclude_token_ids |-> exclude_token_ids_of(args),
     curated_ids |-> ids_in(args.included_ids) \cup ids_in(args.excluded_ids),
     num_typos |-> args.num_typos, token_order |-> args.token_order,
     prefix |-> args.prefix]

\* search_wildcard with filter_ids scored whether or not filters are given
search_wildcard_filter_ids(ctx) ==
    LET ids == ids_in(ctx.filter_ids)
        kept == (ids \ ctx.curated_ids) \ ctx.exclude_token_ids
    IN  [NoOutput EXCEPT
           !.all_result_ids = kept,
           !.score_calls =
               << [field |-> "*", field_id |-> FIELD_LIMIT_NUM, reruns |-> 0,
                   query_suggestion |-> << >>, field_num_results |-> 0,
                   result_ids |-> sorted_ids(kept)] >>,
           !.kvs = score_results(ctx, 0, FIELD_LIMIT_NUM, 0, << >>, << >>,
                                 sorted_ids(kept))]

\* Index::search for the query *: the keys of the sort index of a field that
\* is not optional, or filter_ids, without the curated ids and the ids of
\* the exclude tokens, are scored
search_wildcard(ctx) ==
    LET all_records_field ==
            CHOOSE f \in DOMAIN sort_index : ~search_schema[f].optional
        ids == IF ctx.filters = << >> THEN DOMAIN sort_index[all_records_field]
               ELSE ids_in(ctx.filter_ids)
        kept == (ids \ ctx.curated_ids) \ ctx.exclude_token_ids
    IN  [NoOutput EXCEPT
           !.all_result_ids = kept,
           !.score_calls =
               << [field |-> "*", field_id |-> FIELD_LIMIT_NUM, reruns |-> 0,
                   query_suggestion |-> << >>, field_num_results |-> 0,
                   result_ids |-> sorted_ids(kept)] >>,
           !.kvs = score_results(ctx, 0, FIELD_LIMIT_NUM, 0, << >>, << >>,
                                 sorted_ids(kept))]

\* Index::search: the field_id of the i-th of the fields searched, counted
\* from 0, an uint8_t
field_id_of(i) == (FIELD_LIMIT_NUM - 2 * i) % 256

\* Index::search: the field_id the synonyms of a field are searched with,
\* an uint8_t
synonym_field_id(field_id) == (field_id - 1) % 256

\* the call of search_field for the i-th field of the search
field_call(args, i, tokens, field_id) ==
    [field |-> args.search_fields[i], field_id |-> field_id, reruns |-> 0,
     tokens |-> tokens,
     drop_tokens_threshold |-> args.drop_tokens_threshold,
     typo_tokens_threshold |-> args.typo_tokens_threshold]

\* Index::search, the search of a field: search_field for the tokens of the
\* query, then for each group of synonyms with the field_id one less
RECURSIVE search_synonyms(_, _, _, _, _)
search_synonyms(ctx, args, i, s, o) ==
    IF s > Len(args.q_synonyms) THEN o
    ELSE search_synonyms(ctx, args, i, s + 1,
                         search_field(ctx,
                                      field_call(args, i, args.q_synonyms[s],
                                                 synonym_field_id(field_id_of(i - 1))),
                                      args.q_synonyms[s], o))

search_one_field(ctx, args, i, o) ==
    search_synonyms(ctx, args, i, 1,
                    search_field(ctx,
                                 field_call(args, i, args.q_include_tokens,
                                            field_id_of(i - 1)),
                                 args.q_include_tokens, o))

\* Index::concat_topster_ids: each KV of the Topster of a field is pushed to
\* the KVs of its key
RECURSIVE concat_topster_ids(_, _)
concat_topster_ids(kvs, topster_ids) ==
    IF kvs = << >> THEN topster_ids
    ELSE concat_topster_ids(
             Tail(kvs),
             Put(topster_ids, Head(kvs).key,
                 IF Head(kvs).key \in DOMAIN topster_ids
                 THEN Append(topster_ids[Head(kvs).key], Head(kvs))
                 ELSE << Head(kvs) >>))

\* Index::search, the fields from the i-th on: the only field of a search
\* is searched with the Topster of the search; of several fields each is
\* searched with a Topster of its own, which goes into topster_ids
RECURSIVE search_fields_from(_, _, _, _, _)
search_fields_from(ctx, args, i, o, topster_ids) ==
    LET searched(field_o) ==
            IF Len(args.search_fields) = 1
            THEN search_fields_from(ctx, args, i + 1, field_o, topster_ids)
            ELSE search_fields_from(ctx, args, i + 1,
                                    [field_o EXCEPT !.kvs = << >>],
                                    concat_topster_ids(field_o.kvs, topster_ids))
    IN  IF i > Len(args.search_fields) THEN [o |-> o, topster_ids |-> topster_ids]
        ELSE IF args.filters = << >> \/ Len(ctx.filter_ids) > 0
             THEN searched(search_one_field(ctx, args, i, o))
             ELSE search_fields_from(ctx, args, i + 1, o, topster_ids)

\* the number of offsets the first leaf that art_fuzzy_search finds for the
\* token at cost 0 holds for the id
words_present_in(args, field, seq_id, token_index) ==
    LET tree == search_index[field]
        leaves == art_fuzzy_search(
                      tree, args.q_include_tokens[token_index], 0, 0, 1,
                      args.token_order,
                      args.prefix /\ token_index = Len(args.q_include_tokens))
        offsets_of(values) ==
            LET doc_index == indexOf(values.ids, seq_id)
            IN  IF doc_index = Len(values.ids) THEN 0
                ELSE (IF doc_index = Len(values.ids) - 1 THEN Len(values.offsets)
                      ELSE values.offset_index[doc_index + 2])
                     - values.offset_index[doc_index + 1]
    IN  IF leaves = << >> THEN 0 ELSE offsets_of(tree[leaves[1]])

\* Index::search, for the KVs of a key: the first of them with, for each
\* other field, the match score of the KV of that field or an approximate
\* match score added to its match score
aggregate_kv(args, kvs) ==
    LET index == kvs[1].match_score_index + 1
        of_field(field_id) == { k \in 1..Len(kvs) : kvs[k].field_id = field_id }
        added(i) ==
            LET field_id == field_id_of(i - 1)
                words_present(t) ==
                    words_present_in(args, args.search_fields[i], kvs[1].key, t)
                upto[t \in 0..Len(args.q_include_tokens)] ==
                    IF t = 0 THEN 0 ELSE upto[t - 1] + words_present(t)
                present == upto[Len(args.q_include_tokens)]
            IN  IF field_id = kvs[1].field_id THEN << 0, 0, 0 >>
                ELSE IF of_field(field_id) # {}
                THEN LET kv == kvs[CHOOSE k \in of_field(field_id) :
                                      \A l \in of_field(field_id) : k <= l]
                     IN  kv.scores[kv.match_score_index + 1]
                ELSE IF present # 0
                THEN << 0, 0, get_match_score(present, 0, 100, field_id) >>
                ELSE << 0, 0, 0 >>
        total[i \in 0..Len(args.search_fields)] ==
            IF i = 0 THEN kvs[1].scores[index]
            ELSE int64_sum(total[i - 1], added(i))
    IN  [kvs[1] EXCEPT !.scores[index] = total[Len(args.search_fields)]]

\* Index::search, the loop over topster_ids: the first KV of each key is
\* added to the Topster
RECURSIVE aggregate_topster_ids(_, _, _, _)
aggregate_topster_ids(args, topster_ids, keys, kvs) ==
    IF keys = << >> THEN kvs
    ELSE aggregate_topster_ids(
             args, topster_ids, Tail(keys),
             topster_add(args.max_hits, kvs,
                         IF Len(args.search_fields) > 1
                         THEN aggregate_kv(args, topster_ids[Head(keys)])
                         ELSE topster_ids[Head(keys)][1]))


(***************************************************************************)
(* Index::do_facets.                                                       *)
(***************************************************************************)
\* the facet values in the facet hashes of a document: the hashes before
\* each FACET_ARRAY_DELIMETER, and those at the end with no delimiter
RECURSIVE facet_values(_, _)
facet_values(fhashes, current) ==
    IF fhashes = << >>
    THEN IF current = << >> THEN << >> ELSE << current >>
    ELSE IF Head(fhashes) = FACET_ARRAY_DELIMETER
         THEN << current >> \o facet_values(Tail(fhashes), << >>)
         ELSE facet_values(Tail(fhashes), Append(current, Head(fhashes)))

\* do_facets, the leaves of the tokens of the facet query: each token is
\* looked up at a cost of 0, or of 0 to 1 from three characters on, the
\* last one as a prefix
facet_query_leaves(facet_field, query_tokens, qtoken_index) ==
    LET q == query_tokens[qtoken_index]
    IN  art_fuzzy_search(search_index[facet_field], q, 0,
                         IF length(q) < 3 THEN 0 ELSE 1, 10000, "MAX_SCORE",
                         qtoken_index = Len(query_tokens))

\* do_facets: fhash_qtoken_pos, the hashes of the keys of those leaves
fhash_qtoken_pos(facet_field, facet_query) ==
    LET query_tokens == tokenize(facet_query.query)
        hashes(leaves) ==
            { facet_token_hash(search_schema[facet_field].type, leaves[l]) :
                l \in 1..Len(leaves) }
    IN  UNION { hashes(facet_query_leaves(facet_field, query_tokens, i)) :
                  i \in 1..Len(query_tokens) }

\* do_facets, for a facet and the facet values of a document: each value is
\* counted under its combined hash, with a facet query for the facet only
\* if one of its hashes is in fhash_qtoken_pos
RECURSIVE count_facet_values(_, _, _, _)
count_facet_values(values, use_facet_query, fhashes, result_map) ==
    IF values = << >> THEN result_map
    ELSE LET value == Head(values)
             fvalue_found ==
                 \E j \in 1..Len(value) :
                    ~use_facet_query \/ value[j] \in fhashes
             fhash == combined_hash(value)
         IN  count_facet_values(
                 Tail(values), use_facet_query, fhashes,
                 IF ~use_facet_query \/ fvalue_found
                 THEN Put(result_map, fhash,
                          IF fhash \in DOMAIN result_map
                          THEN result_map[fhash] + 1 ELSE 1)
                 ELSE result_map)

\* Index::do_facets: the result_map of each facet after the facet values
\* of the result ids are counted
RECURSIVE do_facets(_, _, _, _)
do_facets(facets, facet_query, result_ids, result_maps) ==
    LET doc_seq_id == Head(result_ids)
        use_facet_query(field_name) ==
            field_name = facet_query.field_name /\ facet_query.query # << >>
        counted(field_name) ==
            count_facet_values(
                facet_values(facet_index_v2[doc_seq_id][field_name], << >>),
                use_facet_query(field_name),
                IF use_facet_query(field_name)
                THEN fhash_qtoken_pos(field_name, facet_query) ELSE {},
                result_maps[field_name])
    IN  IF result_ids = << >> THEN result_maps
        ELSE do_facets(facets, facet_query, Tail(result_ids),
                       IF doc_seq_id \notin DOMAIN facet_index_v2 THEN result_maps
                       ELSE [field_name \in DOMAIN result_maps |->
                               counted(field_name)])

\* Index::search up to the end of the searches of the fields: what they
\* have produced and topster_ids
search_results(ctx, args) ==
    IF args.q_include_tokens # << >> /\ args.q_include_tokens[1] = "*"
    THEN [o |-> search_wildcard(ctx), topster_ids |-> EmptyMap]
    ELSE search_fields_from(ctx, args, 1, NoOutput, EmptyMap)

\* Index::search, the Topster it leaves for the caller
search_topster(args, fields) ==
    aggregate_topster_ids(args, fields.topster_ids,
                          sorted_ids(DOMAIN fields.topster_ids), fields.o.kvs)

\* Index::search, the facets counted: over all_result_ids, then over the
\* included ids
search_facets(args, all_result_ids) ==
    do_facets(args.facets, args.facet_query, args.included_ids,
              do_facets(args.facets, args.facet_query, sorted_ids(all_result_ids),
                        [field_name \in ids_in(args.facets) |-> EmptyMap]))


(***************************************************************************)
(* The collection under adds, updates, removals and searches.              *)
(***************************************************************************)
\* search_args: the arguments of a search for the tokens in the title, with
\* the defaults of the collection
SearchArgs(q_include_tokens) ==
    [q_include_tokens |-> q_include_tokens,
     q_exclude_tokens |-> << >>,
     q_synonyms |-> << >>,
     search_fields |-> << "title" >>,
     filters |-> << >>,
     facets |-> << >>,
     facet_query |-> [field_name |-> "", query |-> << >>],
     included_ids |-> << >>,
     excluded_ids |-> << >>,
     sort_fields_std |-> << [name |-> "_text_match", order |-> "DESC"],
                            [name |-> "points", order |-> "DESC"] >>,
     num_typos |-> 0,
     max_hits |-> 10,
     token_order |-> "FREQUENCY",
     prefix |-> FALSE,
     drop_tokens_threshold |-> DROP_TOKENS_THRESHOLD,
     typo_tokens_threshold |-> TYPO_TOKENS_THRESHOLD]

\* the queries: one or two tokens, with words no document has
Queries ==
    { << "a" >>, << "ab" >>, << "abc" >>, << "zz" >>, << "ab", "abc" >>,
      << "abc", "abd" >>, << "ab", "zz" >> }

\* searches with typos and prefixes, and with a typo_tokens_threshold of 1
TypoSearches ==
    { [SearchArgs(q) EXCEPT !.num_typos = num_typos, !.prefix = prefix] :
        q \in Queries, num_typos \in {0, 1, 3}, prefix \in BOOLEAN }
    \cup
    { [SearchArgs(q) EXCEPT !.prefix = prefix, !.typo_tokens_threshold = 1,
                            !.drop_tokens_threshold = 1] :
        q \in Queries, prefix \in BOOLEAN }

\* the filters: on the facets brand and tags, exact and not, and on points
Filters ==
    { << Filter("brand", << << "a", "ab" >> >>, "EQUALS") >>,
      << Filter("brand", << << "ab", "a" >> >>, "EQUALS") >>,
      << Filter("brand", << << "a", "zz" >> >>, "EQUALS") >>,
      << Filter("brand", << << "a", "zz" >> >>, "CONTAINS") >>,
      << Filter("brand", << << "zz" >>, << "ab" >> >>, "CONTAINS") >>,
      << Filter("tags", << << "ab", "a" >> >>, "EQUALS") >>,
      << Filter("tags", << << "a", "ab" >> >>, "EQUALS") >>,
      << Filter("tags", << << "a", "zz" >> >>, "EQUALS") >>,
      << Filter("tags", << << "a" >> >>, "CONTAINS") >>,
      << Filter("points", << << "1" >> >>, "EQUALS") >>,
      << Filter("points", << << "-1" >> >>, "EQUALS") >>,
      << Filter("points", << << "0" >> >>, "GREATER_THAN") >>,
      << Filter("brand", << << "a" >> >>, "CONTAINS"),
         Filter("points", << << "1" >> >>, "EQUALS") >> }

FilterSearches ==
    { [SearchArgs(q) EXCEPT !.filters = filters] :
        q \in { << "*" >>, << "abd" >> }, filters \in Filters }

\* searches with exclude tokens and curated ids
CuratedSearches ==
    { [SearchArgs(q) EXCEPT !.q_exclude_tokens = q_exclude_tokens,
                            !.included_ids = included_ids,
                            !.excluded_ids = excluded_ids,
                            !.filters = filters] :
        q \in { << "*" >>, << "abc" >> },
        q_exclude_tokens \in { << >>, << "abd" >> },
        included_ids \in { << >>, << 1 >> },
        excluded_ids \in { << >>, << 0 >> },
        filters \in { << >>, << Filter("points", << << "1" >> >>, "EQUALS") >> } }

\* searches of two fields, with and without synonyms
FieldSearches ==
    { [SearchArgs(q) EXCEPT !.search_fields = << "title", "brand" >>,
                            !.q_synonyms = q_synonyms, !.prefix = prefix] :
        q \in { << "ab" >>, << "a" >> },
        q_synonyms \in { << >>, << << "abd" >> >> },
        prefix \in BOOLEAN }

\* searches with facets, with and without a facet query
FacetSearches ==
    { [SearchArgs(<< "*" >>) EXCEPT !.facets = << "brand", "tags" >>,
                                    !.facet_query = facet_query] :
        facet_query \in
          { [field_name |-> "", query |-> << >>],
            [field_name |-> "brand", query |-> << "a" >>],
            [field_name |-> "brand", query |-> << "a", "zz" >>],
            [field_name |-> "brand", query |-> << "a", "a" >>],
            [field_name |-> "tags", query |-> << "ab", "a" >>],
            [field_name |-> "tags", query |-> << "zz", "a" >>] } }

\* searches sorted in ascending order
SortSearches ==
    { [SearchArgs(q) EXCEPT !.sort_fields_std = sort_fields_std] :
        q \in { << "*" >>, << "ab" >> },
        sort_fields_std \in
          { << [name |-> "points", order |-> "ASC"] >>,
            << [name |-> "_text_match", order |-> "ASC"],
               [name |-> "points", order |-> "ASC"],
               [name |-> "points", order |-> "DESC"] >> } }

\* searches of three tokens with two typos, and with thresholds of the
\* caller that the documents of the index do not reach
ThresholdSearches ==
    { [SearchArgs(q) EXCEPT !.num_typos = 2,
                            !.drop_tokens_threshold = 100,
                            !.typo_tokens_threshold = 1000] :
        q \in { << "ab", "abc", "abd" >> } }

Searches ==
    TypoSearches \cup FilterSearches \cup CuratedSearches \cup FieldSearches
       \cup FacetSearches \cup SortSearches \cup ThresholdSearches

\* what the negation of INT64_MIN, which overflows, can leave in a score:
\* the value wrapped around, or any other one
Int64Values ==
    { INT64_MIN, INT64_MAX, << 0, 0, 0 >>, << 0, 0, 1 >>, << 0, 0, 2 >>,
      << 3, INT32_MAX, INT32_MAX >>, << 3, INT32_MAX, INT32_MAX - 1 >>,
      << 2, 0, 1 >> }

\* the variables of the index and of the collection
indexData ==
    << search_index, numerical_index, sort_index, facet_index_v2,
       num_documents, docs, next_seq_id, last_op, search_schema, iter_batch,
       thrown >>

\* Index::run_search calls Index::search with the arguments of
\* search_params
search(args) ==
    /\ search_args = NoSearch
    /\ ~thrown
    /\ search_args' = args
    /\ \E overflowed \in
            IF \E f \in DOMAIN sort_index : \E id \in DOMAIN sort_index[f] :
                  int64_bits(sort_index[f][id]) = INT64_MIN
            THEN Int64Values ELSE { INT64_MIN } :
          \E ctx \in { search_context(args, overflowed) } :
             \E fields \in { search_results(ctx, args) } :
                /\ filter_ids' = ctx.filter_ids
                /\ topster' = search_topster(args, fields)
                /\ fuzzy_calls' = fields.o.fuzzy_calls
                /\ score_calls' = fields.o.score_calls
                /\ field_runs' = fields.o.runs
                /\ facet_results' = search_facets(args, fields.o.all_result_ids)
    /\ UNCHANGED << replVars, nodesVars, workerVars, indexData >>

\* search_args::~search_args: the Topsters of the search are deleted
search_args_deleted ==
    /\ search_args # NoSearch
    /\ search_args' = NoSearch
    /\ filter_ids' = << >>
    /\ topster' = << >>
    /\ fuzzy_calls' = << >>
    /\ score_calls' = << >>
    /\ field_runs' = << >>
    /\ facet_results' = << >>
    /\ UNCHANGED << replVars, nodesVars, workerVars, indexData >>

InitSearch == ReplInit /\ WorkerInit /\ NewIndex(SearchSchema)

NextSearch ==
    \/ \E document \in SearchDocuments : search_args = NoSearch /\ add(document)
    \/ \E seq_id \in SeqIds, document \in SearchDocuments :
          search_args = NoSearch /\ update(seq_id, document)
    \/ \E seq_id \in SeqIds : search_args = NoSearch /\ remove_document(seq_id)
    \/ \E args \in Searches : search(args)
    \/ search_args_deleted

SpecSearch == InitSearch /\ [][NextSearch]_vars


\* C21: the cost at which search_field looks a token up is at most the
\* number of typos asked for, taken as 2 if that is not one of 0, 1, 2, and
\* for a token of one or two characters at most its length less one, so that
\* a token of a single character is only looked up at cost 0
C21_BoundedTypoCost ==
    LET effective == IF search_args.num_typos \in 0..2
                     THEN search_args.num_typos ELSE 2
        allowed(L) == IF L \in {1, 2}
                      THEN (IF effective <= L - 1 THEN effective ELSE L - 1)
                      ELSE effective
    IN  /\ \A max_cost \in 0..2, L \in 0..4 :
              get_bounded_typo_cost(max_cost, L)
                 = (IF L \in {1, 2} /\ L - 1 <= max_cost THEN L - 1 ELSE max_cost)
        /\ \A c \in 1..Len(fuzzy_calls) :
              /\ fuzzy_calls[c].cost \in 0..allowed(length(fuzzy_calls[c].token))
              /\ length(fuzzy_calls[c].token) = 1 => fuzzy_calls[c].cost = 0

\* a prefix search for the single character a with num_typos 3 looked it
\* up at cost 0 only, and found documents
C21_Witness ==
    /\ search_args # NoSearch
    /\ search_args.num_typos = 3
    /\ search_args.q_include_tokens = << "a" >>
    /\ fuzzy_calls # << >>
    /\ \A c \in 1..Len(fuzzy_calls) : fuzzy_calls[c].cost = 0
    /\ topster # << >>


\* C22: every id that a search scores, on the token path and on the
\* wildcard path, and every key of the Topster it leaves, is in no leaf of
\* an exclude token in a searched field, is none of the curated included or
\* excluded ids, and with filters is one of filter_ids
C22_ScoredIdsAllowed ==
    LET allowed(id) ==
            /\ \A i \in 1..Len(search_args.search_fields),
                  t \in 1..Len(search_args.q_exclude_tokens) :
                  search_args.q_exclude_tokens[t]
                        \in DOMAIN search_index[search_args.search_fields[i]]
                     => \A n \in 1..Len(search_index[search_args.search_fields[i]]
                                           [search_args.q_exclude_tokens[t]].ids) :
                           search_index[search_args.search_fields[i]]
                              [search_args.q_exclude_tokens[t]].ids[n] # id
            /\ \A n \in 1..Len(search_args.included_ids) :
                  search_args.included_ids[n] # id
            /\ \A n \in 1..Len(search_args.excluded_ids) :
                  search_args.excluded_ids[n] # id
            /\ search_args.filters # << >>
                  => \E n \in 1..Len(filter_ids) : filter_ids[n] = id
    IN  search_args # NoSearch
           => /\ \A c \in 1..Len(score_calls) :
                    \A n \in 1..Len(score_calls[c].result_ids) :
                       allowed(score_calls[c].result_ids[n])
              /\ \A k \in 1..Len(topster) : allowed(topster[k].key)

\* a filtered search for abc with the exclude token abd and a curated id
\* scored a document, while another document with abc has abd or is curated
C22_Witness ==
    /\ search_args # NoSearch
    /\ search_args.q_include_tokens = << "abc" >>
    /\ search_args.q_exclude_tokens # << >>
    /\ search_args.filters # << >>
    /\ Len(search_args.included_ids) + Len(search_args.excluded_ids) > 0
    /\ topster # << >>
    /\ \E id \in leaf_ids(search_index["title"], "abc") :
          \A k \in 1..Len(topster) : topster[k].key # id


\* C23: after any adds, updates and removals a search for * with no filter,
\* no curated ids and no exclude tokens scores the live documents and only
\* them, each one once, and the Topster holds one KV for each
C23_WildcardScoresLiveDocuments ==
    (/\ search_args # NoSearch
     /\ search_args.q_include_tokens = << "*" >>
     /\ search_args.filters = << >>
     /\ search_args.q_exclude_tokens = << >>
     /\ search_args.included_ids = << >>
     /\ search_args.excluded_ids = << >>)
       => /\ Len(score_calls) = 1
          /\ Len(score_calls[1].result_ids) = Cardinality(DOMAIN docs)
          /\ \A id \in DOMAIN docs :
                \E n \in 1..Len(score_calls[1].result_ids) :
                   score_calls[1].result_ids[n] = id
          /\ Len(topster) = Cardinality(DOMAIN docs)
          /\ \A id \in DOMAIN docs :
                \E k \in 1..Len(topster) : topster[k].key = id

\* with the first document removed and the second one live, a search for *
\* scored the second document alone
C23_Witness ==
    /\ search_args # NoSearch
    /\ search_args.q_include_tokens = << "*" >>
    /\ search_args.filters = << >>
    /\ search_args.q_exclude_tokens = << >>
    /\ search_args.included_ids = << >>
    /\ search_args.excluded_ids = << >>
    /\ DOMAIN docs = {1}
    /\ Len(topster) = 1
    /\ topster[1].key = 1


\* C24: a search with one filter := on the faceted field brand or tags has
\* a document in filter_ids only if the value of the field, for tags one of
\* its elements, has the tokens of one of the values of the filter, the
\* same ones in the same order and as many
C24_ExactFilterMatchesTokenSequence ==
    (/\ search_args # NoSearch
     /\ Len(search_args.filters) = 1
     /\ search_args.filters[1].field_name \in {"brand", "tags"}
     /\ search_args.filters[1].comparators[1] = "EQUALS")
       => \A n \in 1..Len(filter_ids) :
             LET a_filter == search_args.filters[1]
                 f == a_filter.field_name
                 document == docs[filter_ids[n]]
                 texts == field_texts(search_schema[f].type, document[f])
             IN  /\ filter_ids[n] \in DOMAIN docs
                 /\ f \in DOMAIN document
                 /\ \E v \in 1..Len(a_filter.values), e \in 1..Len(texts) :
                       tokenize(texts[e]) = tokenize(a_filter.values[v])


\* C25: with filters that are not := on a string field, filter_ids holds a
\* document if and only if for every filter it matches one of the values
\* of the filter: for a string field the field has every token of the value,
\* for an integer field its value stands in the comparison to the value
C25_FilterComposition ==
    LET is_contains(a_filter) ==
            is_string(search_schema[a_filter.field_name].type)
               => \A v \in 1..Len(a_filter.values) :
                     a_filter.comparators[v] = "CONTAINS"
        compares(comparator, x, y) ==
            CASE comparator = "EQUALS" -> x = y
              [] comparator = "LESS_THAN" -> less(x, y)
              [] comparator = "LESS_THAN_EQUALS" -> ~less(y, x)
              [] comparator = "GREATER_THAN" -> less(y, x)
              [] comparator = "GREATER_THAN_EQUALS" -> ~less(x, y)
        field_tokens(type, value) ==
            UNION { TokensOf(field_texts(type, value)[e]) :
                      e \in 1..Len(field_texts(type, value)) }
        matches(document, a_filter, v) ==
            LET f == a_filter.field_name
                type == search_schema[f].type
            IN  /\ f \in DOMAIN document
                /\ IF is_string(type)
                   THEN TokensOf(a_filter.values[v])
                           \subseteq field_tokens(type, document[f])
                   ELSE compares(a_filter.comparators[v], to_int(document[f]),
                                 atoll(a_filter.values[v][1]))
    IN  (/\ search_args # NoSearch
         /\ search_args.filters # << >>
         /\ \A i \in 1..Len(search_args.filters) : is_contains(search_args.filters[i]))
           => \A id \in SeqIds :
                 (\E n \in 1..Len(filter_ids) : filter_ids[n] = id)
                    <=> /\ id \in DOMAIN docs
                        /\ \A i \in 1..Len(search_args.filters) :
                              \E v \in 1..Len(search_args.filters[i].values) :
                                 matches(docs[id], search_args.filters[i], v)


(***************************************************************************)
(* The sort keys of score_results, for the values a sort index can hold.   *)
(* A field of type int32 takes every integer up to INT32_MAX and one of    *)
(* type int64 every integer, so every int64_t can be a value.              *)
(***************************************************************************)
\* Index::score_results for the ids 0, 1, .. whose values in the sort index
\* of points are given, sorted by points ascending and then descending
score_sort_values(values, overflowed) ==
    /\ search_args = NoSearch
    /\ ~thrown
    /\ search_args' =
          [SearchArgs(<< "*" >>) EXCEPT
             !.sort_fields_std = << [name |-> "points", order |-> "ASC"],
                                    [name |-> "points", order |-> "DESC"] >>]
    /\ topster' =
          [n \in 1..Len(values) |->
              [field_id |-> FIELD_LIMIT_NUM, query_index |-> 0, key |-> n - 1,
               match_score_index |-> 0,
               scores |-> << sort_key(values[n], "ASC", overflowed),
                             sort_key(values[n], "DESC", overflowed),
                             << 0, 0, 0 >> >>]]
    /\ UNCHANGED << filter_ids, fuzzy_calls, score_calls, field_runs,
                    facet_results >>
    /\ UNCHANGED << replVars, nodesVars, workerVars, indexData >>

NextScore ==
    \/ \E a \in Int64Values, b \in Int64Values, overflowed \in Int64Values :
          score_sort_values(<< a, b >>, overflowed)
    \/ search_args_deleted

SpecScore == InitSearch /\ [][NextScore]_vars

\* C26: of two documents scored with a sort field ascending and the same
\* field descending, one has the lesser ascending key exactly if it has the
\* greater descending key, whatever int64_t values the field has for them
C26_AscendingReversesDescending ==
    (/\ search_args # NoSearch
     /\ Len(search_args.sort_fields_std) >= 2
     /\ search_args.sort_fields_std[1].name = search_args.sort_fields_std[2].name
     /\ search_args.sort_fields_std[1].order = "ASC"
     /\ search_args.sort_fields_std[2].order = "DESC")
       => \A k, l \in 1..Len(topster) :
             int64_less(topster[k].scores[1], topster[l].scores[1])
                <=> int64_less(topster[l].scores[2], topster[k].scores[2])


C28_PrefixOnlyForLastQueryToken ==
    \A c \in 1..Len(fuzzy_calls) :
       fuzzy_calls[c].prefix
          => fuzzy_calls[c].token
                = fuzzy_calls[c].tokens[Len(fuzzy_calls[c].tokens)]


\* C29: a combination of candidates is only scored for a field, in the
\* first run of search_field and in its runs with truncated tokens, while
\* the ids scored for the field before it in that search of the field are
\* fewer than the typo_tokens_threshold of the caller
C29_CallerThresholdEndsExpansion ==
    LET scored_before(c) ==
            LET same(d) == /\ score_calls[d].field = score_calls[c].field
                           /\ score_calls[d].field_id = score_calls[c].field_id
                upto[d \in 0..(c - 1)] ==
                    IF d = 0 THEN 0
                    ELSE upto[d - 1]
                            + (IF same(d) THEN Len(score_calls[d].result_ids) ELSE 0)
            IN  upto[c - 1]
    IN  search_args # NoSearch
           => \A c \in 1..Len(score_calls) :
                 score_calls[c].field # "*"
                    => scored_before(c) < search_args.typo_tokens_threshold


\* C30: with a facet query for a facet, every facet value counted for the
\* facet has, for each token of the facet query, a token that matches it,
\* the last token of the query as a prefix
C30_FacetQueryMatchesEveryToken ==
    LET f == search_args.facet_query.field_name
        query_tokens == tokenize(search_args.facet_query.query)
        matches(q, token, prefix) ==
            key_distance(q, token, prefix) <= (IF length(q) < 3 THEN 0 ELSE 1)
    IN  (/\ search_args # NoSearch
         /\ search_args.facet_query.query # << >>
         /\ f \in DOMAIN facet_results)
           => \A fhash \in DOMAIN facet_results[f] :
                 \A i \in 1..Len(query_tokens) :
                    \E p \in fhash :
                       matches(query_tokens[i], p[1][2], i = Len(query_tokens))


\* C31: an update of a live document that ends indexed leaves the postings,
\* the num_trees, the sort index and the facet entries as removing the old
\* document and indexing the merged document from scratch leaves them
C31_UpdateIsRemoveThenIndex ==
    [][\A seq_id \in DOMAIN docs, document \in Documents :
          (/\ update(seq_id, document)
           /\ iter_batch'[1].indexed.value = TRUE
           /\ ~thrown')
             => LET from_scratch ==
                        index_in_memory(remove(TheIndex, seq_id, docs[seq_id]),
                                        Merge(docs[seq_id], document), seq_id,
                                        FALSE)
                IN  /\ search_index' = from_scratch.search_index
                    /\ numerical_index' = from_scratch.numerical_index
                    /\ sort_index' = from_scratch.sort_index
                    /\ facet_index_v2' = from_scratch.facet_index_v2]_vars


\* C32: no call of search_field takes more than combination_limit
\* combinations of costs, nor calls search_candidates more often than that,
\* the combinations taken again after a cost was erased counted too
C32_CombinationLimitPerCall ==
    \A r \in 1..Len(field_runs) :
       /\ Len(field_runs[r].cost_vectors) <= combination_limit
       /\ field_runs[r].candidates_calls <= combination_limit


\* the restart x of a call of search_field erased the cost that had no leaf,
\* and with it the token if that was its last cost, the same token of
\* search_tokens and of query_tokens
erased_one(x) ==
    LET i == x.token_index
        left == SelectSeq(x.token_to_costs[1][i], LAMBDA c : c # x.cost)
        token == x.search_tokens[1][i]
    IN  /\ \E c \in 1..Len(x.token_to_costs[1][i]) :
              x.token_to_costs[1][i][c] = x.cost
        /\ IF left # << >>
           THEN /\ x.token_to_costs[2] = [x.token_to_costs[1] EXCEPT ![i] = left]
                /\ x.search_tokens[2] = x.search_tokens[1]
                /\ x.query_tokens[2] = x.query_tokens[1]
           ELSE /\ x.token_to_costs[2] = without(x.token_to_costs[1], i)
                /\ x.search_tokens[2] = without(x.search_tokens[1], i)
                /\ \E j \in 1..Len(x.query_tokens[1]) :
                      /\ x.query_tokens[1][j] = token
                      /\ x.query_tokens[2] = without(x.query_tokens[1], j)

C34_TokenDropping ==
    \A r \in 1..Len(field_runs) :
       LET run == field_runs[r]
           k == run.reruns
           n == Len(run.query_tokens)
       IN  /\ k >= 1
                => run.search_tokens
                     = IF k <= n \div 2
                       THEN SubSeq(run.query_tokens, 1, n - k)
                       ELSE SubSeq(run.query_tokens, (k - n \div 2) + 1, n)
           /\ (r < Len(field_runs) /\ field_runs[r + 1].reruns = k + 1)
                => run.field_num_results < search_args.drop_tokens_threshold


\* the number of costs the tokens have left
RECURSIVE costs_left(_)
costs_left(token_to_costs) ==
    IF token_to_costs = << >> THEN 0
    ELSE Len(Head(token_to_costs)) + costs_left(Tail(token_to_costs))

\* C40: every call of search_field returns: each time the combinations of
\* costs start again the tokens have lost a cost, no token keeps an empty
\* list of costs, every combination has a cost for each token, and a call
\* is run again for dropped tokens at most once for each query token
C40_SearchFieldReturns ==
    \A r \in 1..Len(field_runs) :
       LET run == field_runs[r]
       IN  /\ (r = Len(field_runs) \/ field_runs[r + 1].reruns = 0)
                => run.returned
           /\ \A k \in 1..Len(run.restarts) :
                 LET x == run.restarts[k]
                 IN  /\ costs_left(x.token_to_costs[2])
                           < costs_left(x.token_to_costs[1])
                     /\ \A i \in 1..Len(x.token_to_costs[2]) :
                           x.token_to_costs[2][i] # << >>
                     /\ Len(x.token_to_costs[2]) = Len(x.search_tokens[2])
           /\ Len(run.restarts) <= 3 * Len(run.search_tokens)
           /\ run.reruns <= Len(run.query_tokens)

\* a search of three tokens that started its combinations again and was
\* run again for dropped tokens three times has returned
C40_Witness ==
    /\ field_runs # << >>
    /\ field_runs[Len(field_runs)].returned
    /\ field_runs[Len(field_runs)].reruns = 3
    /\ field_runs[1].restarts # << >>


(***************************************************************************)
(* Index::search, the field_ids of its loop over the fields searched.      *)
(***************************************************************************)
\* Index::search for num_search_fields fields, as far as the field_ids go:
\* the field_id search_field gets for the tokens of the query and the one
\* it gets for the synonyms, field by field
search_field_ids(num_search_fields) ==
    /\ search_args = NoSearch
    /\ ~thrown
    /\ search_args' =
          [SearchArgs(<< "ab" >>) EXCEPT
             !.search_fields = [i \in 1..num_search_fields |-> i],
             !.q_synonyms = << << "abd" >> >>]
    /\ field_runs' =
          [i \in 1..num_search_fields |->
              [field |-> i, field_id |-> field_id_of(i - 1),
               synonym_field_id |-> synonym_field_id(field_id_of(i - 1))]]
    /\ UNCHANGED << filter_ids, topster, fuzzy_calls, score_calls,
                    facet_results >>
    /\ UNCHANGED << replVars, nodesVars, workerVars, indexData >>

NextFieldIds ==
    \/ \E num_search_fields \in 1..FIELD_LIMIT_NUM :
          search_field_ids(num_search_fields)
    \/ search_args_deleted

SpecFieldIds == InitSearch /\ [][NextFieldIds]_vars

\* C35: in a search of up to FIELD_LIMIT_NUM fields the field_id of a field
\* is FIELD_LIMIT_NUM less twice its index, it is above the field_id of its
\* synonyms, which is one less, and that is above the field_id of every
\* field after it
C35_FieldIdsDescend ==
    \A i \in 1..Len(field_runs) :
       /\ field_runs[i].field_id = FIELD_LIMIT_NUM - 2 * (i - 1)
       /\ field_runs[i].synonym_field_id = field_runs[i].field_id - 1
       /\ field_runs[i].field_id > field_runs[i].synonym_field_id
       /\ \A j \in (i + 1)..Len(field_runs) :
             field_runs[i].synonym_field_id > field_runs[j].field_id


\* C36: the score stored with the posting of a live document is the value
\* the sort index has for the document in the default sorting field; for a
\* leaf with the posting of one document that score is its max_score
C36_PostingScoreIsSortValue ==
    \A f \in DOMAIN search_index : \A token \in DOMAIN search_index[f] :
       \A seq_id \in DOMAIN docs :
          search_index[f][token].ids = << seq_id >>
             => /\ seq_id \in DOMAIN sort_index[default_sorting_field]
                /\ search_index[f][token].max_score
                      = sort_index[default_sorting_field][seq_id]


(***************************************************************************)
(* Index::float_to_in64_t on the values of a filter of a float field.      *)
(***************************************************************************)
\* bit patterns of floats that are not NaN, of both signs: zero, the least
\* and the greatest denormal, the least normal, 1.0, 1.5, 2.0, the greatest
\* finite float and infinity
FloatBits ==
    { << sign, rest >> :
        sign \in {0, 1},
        rest \in { 0, 1, Pow2(23) - 1, Pow2(23), 127 * Pow2(23), 1069547520,
                   128 * Pow2(23), 255 * Pow2(23) - 1, 255 * Pow2(23) } }

\* a < b for two floats that are not NaN
float_less(a, b) ==
    IF a[2] = 0 /\ b[2] = 0 THEN FALSE
    ELSE IF a[1] # b[1] THEN a[1] = 1
    ELSE IF a[1] = 0 THEN a[2] < b[2]
    ELSE b[2] < a[2]

\* Index::do_filtering for a filter of a float field with the values a and
\* b, as far as the keys go: each value is converted with float_to_in64_t
\* and the num_tree is searched for the result
float_filter_keys(a, b) ==
    /\ search_args = NoSearch
    /\ ~thrown
    /\ search_args' =
          [SearchArgs(<< "*" >>) EXCEPT
             !.filters = << Filter("value", << a, b >>, "EQUALS") >>]
    /\ filter_ids' = << float_to_in64_t(a), float_to_in64_t(b) >>
    /\ UNCHANGED << topster, fuzzy_calls, score_calls, field_runs,
                    facet_results >>
    /\ UNCHANGED << replVars, nodesVars, workerVars, indexData >>

NextFloat ==
    \/ \E a \in FloatBits, b \in FloatBits : float_filter_keys(a, b)
    \/ search_args_deleted

SpecFloat == InitSearch /\ [][NextFloat]_vars

\* C37: of two floats that are not NaN, a below b, float_to_in64_t gives a
\* the smaller integer
C37_FloatOrderKept ==
    search_args # NoSearch
       => LET a == search_args.filters[1].values[1]
              b == search_args.filters[1].values[2]
          IN  float_less(a, b) => less(filter_ids[1], filter_ids[2])

\* -2.0 and -1.0 were converted, and -0.0 and the least denormal
C37_Witness ==
    /\ search_args # NoSearch
    /\ search_args.filters[1].values
          \in { << << 1, 128 * Pow2(23) >>, << 1, 127 * Pow2(23) >> >>,
                << << 1, 0 >>, << 0, 1 >> >> }
    /\ less(filter_ids[1], filter_ids[2])


(***************************************************************************)
(* Index::index_string_array_field and Index::populate_token_positions on  *)
(* the strings of one array.                                               *)
(***************************************************************************)
MaxElements == 2

\* the strings of an array: up to two words, after no other token or after
\* 2^16 - 1 tokens that are other words
LongStrings ==
    { [skipped |-> skipped, words |-> words] :
        skipped \in { 0, Pow2(16) - 1 },
        words \in { << >>, << "a" >>, << "b" >>, << "a", "a" >>, << "a", "b" >>,
                    << "b", "a" >>, << "b", "b" >> } }

StringArrays ==
    UNION { [1..n -> LongStrings] : n \in 0..MaxElements }

\* the token_index values at which the tokenizer yields token in a string
long_string_offsets(str, token) ==
    [i \in 1..Len(token_offsets(str.words, token)) |->
        str.skipped + token_offsets(str.words, token)[i]]

\* array_token_positions with positions pushed to the vector of array_index
pushed(array_token_positions, array_index, positions) ==
    Put(array_token_positions, array_index,
        Append(IF array_index \in DOMAIN array_token_positions
               THEN array_token_positions[array_index] ELSE << >>,
               positions))

\* Index::populate_token_positions, the loop over the offsets of the
\* document in a leaf: a position that repeats ends an array index, which
\* is the offset after it; the positions are kept as uint16_t
RECURSIVE token_positions_loop(_, _, _, _, _, _)
token_positions_loop(offsets, start_offset, end_offset, prev_pos, positions, array_token_positions) ==
    IF ~(start_offset < end_offset)
    THEN IF positions # << >> THEN pushed(array_token_positions, 0, positions)
         ELSE array_token_positions
    ELSE LET pos == offsets[start_offset + 1]
         IN  IF pos = prev_pos
             THEN token_positions_loop(
                      offsets, start_offset + 2, end_offset, -1, << >>,
                      IF positions # << >>
                      THEN pushed(array_token_positions,
                                  offsets[start_offset + 2], positions)
                      ELSE array_token_positions)
             ELSE token_positions_loop(
                      offsets, start_offset + 1, end_offset, pos,
                      Append(positions, pos % Pow2(16)), array_token_positions)

\* Index::populate_token_positions for the document seq_id: for each leaf
\* of query_suggestion that has the document, the positions of its token
\* by array index
RECURSIVE populate_token_positions(_, _, _)
populate_token_positions(query_suggestion, seq_id, array_token_positions) ==
    IF query_suggestion = << >> THEN array_token_positions
    ELSE LET token_leaf == Head(query_suggestion)
             doc_index == indexOf(token_leaf.ids, seq_id)
             start_offset == token_leaf.offset_index[doc_index + 1]
             end_offset == IF doc_index = Len(token_leaf.ids) - 1
                           THEN Len(token_leaf.offsets)
                           ELSE token_leaf.offset_index[doc_index + 2]
         IN  populate_token_positions(
                 Tail(query_suggestion), seq_id,
                 IF doc_index = Len(token_leaf.ids) THEN array_token_positions
                 ELSE token_positions_loop(token_leaf.offsets, start_offset,
                                           end_offset, -1, << >>,
                                           array_token_positions))

\* Index::index_string_array_field for the strings of tags of document 0,
\* into the tree of tags: insert_doc with the offsets of each of the words
index_string_array_field(strings) ==
    /\ search_args = NoSearch
    /\ ~thrown
    /\ docs = EmptyMap
    /\ docs' = (0 :> [tags |-> << "array", [n \in 1..Len(strings) |->
                                              << "string", strings[n] >>] >>])
    /\ search_index' =
          [search_index EXCEPT
             !["tags"] =
                 insert_doc(I64(0), @, 0,
                            [t \in {"a", "b"} |->
                                array_field_offsets(
                                    [n \in 1..Len(strings) |->
                                        long_string_offsets(strings[n], t)])],
                            {"a", "b"})]
    /\ UNCHANGED << numerical_index, sort_index, facet_index_v2, num_documents,
                    next_seq_id, last_op, search_schema, iter_batch, thrown >>
    /\ UNCHANGED << search_args, filter_ids, topster, fuzzy_calls, score_calls,
                    field_runs, facet_results >>
    /\ UNCHANGED << replVars, nodesVars, workerVars >>

NextOffsets == \E strings \in StringArrays : index_string_array_field(strings)

SpecOffsets == InitSearch /\ [][NextOffsets]_vars

\* C38: for the strings of an array and a token, populate_token_positions
\* gives from the offsets index_string_array_field stored, for each element
\* that has the token, its array index with the positions of the token in
\* that element, and nothing else
C38_ArrayOffsetsRoundTrip ==
    0 \in DOMAIN docs
       => \A token \in {"a", "b"} :
             LET strings == [n \in 1..Len(docs[0].tags[2]) |-> docs[0].tags[2][n][2]]
                 positions == [n \in 1..Len(strings) |->
                                  long_string_offsets(strings[n], token)]
                 with_token == { n \in 1..Len(strings) : positions[n] # << >> }
             IN  IF with_token = {}
                 THEN token \notin DOMAIN search_index["tags"]
                 ELSE /\ token \in DOMAIN search_index["tags"]
                      /\ populate_token_positions(
                             << search_index["tags"][token] >>, 0, EmptyMap)
                           = [array_index \in { n - 1 : n \in with_token } |->
                                 << positions[array_index + 1] >>]


(***************************************************************************)
(* ReplicationState::refresh_nodes.                                        *)
(***************************************************************************)
\* the configurations refresh_nodes is given: none to three peers
NodeConfs == SUBSET { Self, Peer, "n3" }

\* how the call of the task that updates the catch up status can end: the
\* leader answers with status 500, with no number, with a sequence number
\* below the local one, with one near it, or with one further away that
\* the local one has reached the threshold percentage of or has not
CatchUpOutcomes ==
    { "status_500", "invalid", "leader_behind", "near", "reached", "not_reached" }

\* refresh_nodes that resets the peers whenever the node knows no leader
refresh_nodes_resets_any(nodes) ==
    /\ ~crashed
    /\ refreshed' =
          [called |-> TRUE, nodes |-> nodes, is_leader |-> is_leader,
           leader_id |-> leader_id,
           change_peers |-> node /\ is_leader,
           reset_peers |-> node /\ ~is_leader /\ leader_id = NoLeader,
           enqueued |-> node /\ ~is_leader /\ leader_id # NoLeader]
    /\ caught_up' = IF ~node THEN caught_up
                    ELSE IF is_leader THEN TRUE
                    ELSE IF leader_id = NoLeader THEN FALSE
                    ELSE caught_up
    /\ UNCHANGED << replVars, workerVars, indexVars >>

\* ReplicationState::refresh_nodes: the leader changes the peers to the new
\* configuration; a node that knows no leader resets its peers if the new
\* configuration has one peer; a node that knows the leader hands the
\* update of the catch up status to the thread pool
refresh_nodes(nodes) ==
    /\ ~crashed
    /\ refreshed' =
          [called |-> TRUE, nodes |-> nodes, is_leader |-> is_leader,
           leader_id |-> leader_id,
           change_peers |-> node /\ is_leader,
           reset_peers |-> /\ node /\ ~is_leader /\ leader_id = NoLeader
                           /\ Cardinality(nodes) = 1,
           enqueued |-> node /\ ~is_leader /\ leader_id # NoLeader]
    /\ caught_up' = IF ~node THEN caught_up
                    ELSE IF is_leader THEN TRUE
                    ELSE IF leader_id = NoLeader THEN FALSE
                    ELSE caught_up
    /\ UNCHANGED << replVars, workerVars, indexVars >>

\* the task refresh_nodes enqueued: caught_up is set from the sequence
\* number the leader answers with
update_catch_up_status(outcome) ==
    /\ ~crashed
    /\ refreshed.enqueued
    /\ refreshed' = [refreshed EXCEPT !.enqueued = FALSE]
    /\ caught_up' = IF outcome = "status_500" THEN caught_up
                    ELSE outcome \in { "near", "reached" }
    /\ UNCHANGED << replVars, workerVars, indexVars >>

NextNodes ==
    \/ BecomeLeader
    \/ LoseLeader
    \/ LearnLeader
    \/ \E fail \in {"none", "parse", "rm", "node_init"} \cup InitDbFails :
          start(fail)
    \/ \E nodes \in NodeConfs : refresh_nodes(nodes)
    \/ \E outcome \in CatchUpOutcomes : update_catch_up_status(outcome)

SpecNodes == Init /\ [][NextNodes]_vars

\* C39: refresh_nodes resets the peers only if the node is not the leader,
\* knows no leader and is given a configuration of one peer; given one of
\* more peers with no leader it resets nothing; and in both cases it
\* leaves the node not caught up
C39_ResetPeersOnlySingleNode ==
    [][\A nodes \in NodeConfs :
          refresh_nodes(nodes)
             => /\ refreshed'.reset_peers
                     => /\ node /\ ~is_leader /\ leader_id = NoLeader
                        /\ Cardinality(nodes) = 1
                /\ (node /\ ~is_leader /\ leader_id = NoLeader
                      /\ Cardinality(nodes) > 1)
                     => ~refreshed'.reset_peers /\ ~refreshed'.change_peers
                /\ (node /\ ~is_leader /\ leader_id = NoLeader
                      /\ Cardinality(nodes) >= 1)
                     => ~caught_up' /\ ~refreshed'.enqueued]_vars

\* a node that was caught up and lost its leader was given one peer and
\* reset its peers, and is not caught up
C39_Witness ==
    /\ refreshed.called
    /\ refreshed.reset_peers
    /\ refreshed.nodes = { "n3" }
    /\ node /\ ~is_leader /\ leader_id = NoLeader
    /\ ~caught_up
====
